---- MODULE Spec2Model ----
(***************************************************************************)
(* Merge resolution engine of the falling-fruit game.                      *)
(*                                                                         *)
(* The repository holds four revisions of the Game class:                  *)
(*   "P"  src/unnamed/part_001       tryMerge called by the collisionStart *)
(*        listener, that is inside Engine.update; no distance test, no     *)
(*        cooldown, no drop guard of the game-over monitor;                *)
(*   "A"  src/src/config.ts 59-397   Set of pair keys fed by collision     *)
(*        events, processMerges after every physics update;                *)
(*   "B"  src/src/config.ts 412-875  events + proximity scan,              *)
(*        processMerges, performMerge with recursive checkChainMerges,     *)
(*        processChainMerges;                                              *)
(*   "C"  src/src/game.ts            MergeManager.collectCandidates and    *)
(*        MergeManager.process (the current revision).                     *)
(* The variable rev fixes the revision for a behaviour.                    *)
(*                                                                         *)
(* Time is counted in units of 1/TimeScale ms so that the fixed step of    *)
(* 1000/60 ms is a whole number of units.  Positions and velocities are    *)
(* counted in units of 1/PosScale world units so that the midpoints the    *)
(* merges compute are whole numbers.  Every call of performance.now()      *)
(* inside one frame returns the value read at the top of tick.             *)
(***************************************************************************)
EXTENDS Integers, Sequences, FiniteSets, TLC

VARIABLES
    rev,            \* revision of the Game class
    pc,             \* "idle" | "loop" | "update" | "process": position inside
                    \* tick; "update" is inside Engine.update
    loopAlive,      \* requestAnimationFrame(tick) is still being rescheduled
    clock,          \* performance.now() at the last frame
    frames,         \* frames run so far
    acc,            \* tick's accumulator
    tickDt,         \* dt of the frame in progress
    moved,          \* physics updates done in the frame in progress (capped)
    bodies,         \* Game.bodies: id -> fruit
    world,          \* ids of the fruit bodies in the physics world
    nextId,         \* next body id handed out by the physics library
    nextTierIndex,  \* Game.nextTierIndex
    score, best, comboCount, lastMergeTime,
    gameOver, overTimer, paused, hasDroppedFruit,
    inputDrop,      \* Input.drop
    mergeCandidates,\* A, B: insertion-ordered Set of keys; C: array of pairs;
                    \* P: ev.pairs of the collisionStart event being handled
    mergedThisFrame,\* C: MergeManager.mergedThisFrame
    passNo,         \* passes of the running step that selected a pair
    stepLive,       \* number of live fruits when the running step began
    mergeLog,       \* merges executed by the running step (history)
    aboveRun,       \* time accumulated by consecutive evaluations that found
                    \* a fruit above the line (history)
    walls,          \* static bodies of the world: ground, walls, ceiling
    listeners,      \* collisionStart listeners on the engine that insert
                    \* merge candidates
    eventPairs,     \* C: the pairs one listener inserted during the update of
                    \* the running step (history)
    hostClock,      \* "steady" | "erratic": whether performance.now() may
                    \* stand still or step back between two frames
    hostWindow,     \* "fixed" | "resizable": whether the host resizes the
                    \* canvas during the session
    games,          \* Game instances the page script has constructed
    started,        \* main.ts: started
    resumeArmed,    \* main.ts: the once-listeners of unlockAudioOnce are set
    starting,       \* calls of Game.start waiting for init (loadImages)
    initing,        \* calls of Game.init made by initGame that are waiting
    loops,          \* tick loops kept going by requestAnimationFrame
    soundListeners, \* collisionStart listeners registered by wireEvents
    muted,          \* AudioManager.muted
    lastDropAt,     \* input.ts: state.lastDropAt
    touchX,         \* Input._lastTouchWorldX is set
    press,          \* the pointer press in progress: "none", "mouse" or
                    \* "touch" (begun on the canvas), "elsewhere"
    lastTry,        \* the last call of tryDrop (history)
    events,         \* gestures and clicks so far
    pendingDrops    \* requests that set Input.drop since the last
                    \* consumeDrop (history)

vars == << rev, pc, loopAlive, clock, frames, acc, tickDt, moved, bodies, world, nextId,
           nextTierIndex, score, best, comboCount, lastMergeTime, gameOver,
           overTimer, paused, hasDroppedFruit, inputDrop, mergeCandidates,
           mergedThisFrame, passNo, stepLive, mergeLog, aboveRun, walls,
           listeners, eventPairs, hostClock, hostWindow,
           games, started, resumeArmed, starting, initing, loops,
           soundListeners, muted, lastDropAt, touchX, press, lastTry,
           events, pendingDrops >>

(* the variables of the page script and of the input handlers *)
pageVars == << games, started, resumeArmed, starting, initing, loops,
               soundListeners, muted, lastDropAt, touchX, press, lastTry,
               events >>

----------------------------------------------------------------------------
(* Scales and bounds *)

TimeScale == 3
PosScale == 8

MaxId == 5            \* fruit ids handed out in one behaviour
MaxFrames == 3         \* frames of one behaviour
MaxPasses == 4        \* passes of MergeManager.process that are followed
MaxMovingSubsteps == 1 \* physics updates of one frame that move bodies
MaxReported == 2      \* contact pairs one physics update reports
MaxResizes == 1       \* calls of resizeCanvas between two restarts

----------------------------------------------------------------------------
(* Configuration *)

TIER_RADIUS == << 16, 22, 30, 40, 52, 64, 78, 92, 108, 124, 140 >>
TIER_COUNT == Len(TIER_RADIUS)
getFruitRadius(tierIndex) == TIER_RADIUS[tierIndex + 1]

spawnY == 80
gameOverLineY == 110
mergeBase == 10
comboWindowMs == 1200
MERGE_EPSILON_NUM == 3
MERGE_EPSILON_DEN == 20
MERGE_COOLDOWN_MS == 80
MERGE_MAX_REL_V == 9999
VELOCITY_THRESHOLD == 5
SCAN_MARGIN == 20
MERGE_LIFT == 6
DEBOUNCE_MS == 1000
ACC_CAP_MS == 1000
STEP_UNITS == 50
maxStartTier == IF 4 < TIER_COUNT - 2 THEN 4 ELSE TIER_COUNT - 2

Null == -1

Min(a, b) == IF a <= b THEN a ELSE b
Max(a, b) == IF a >= b THEN a ELSE b

(* ascending sequence of a finite set of integers *)
RECURSIVE SortedIds(_)
SortedIds(S) ==
    IF S = {} THEN << >>
    ELSE LET m == CHOOSE x \in S : \A y \in S : x <= y
         IN << m >> \o SortedIds(S \ {m})

----------------------------------------------------------------------------
(* Fruits and geometry *)

Truthy(t) == t # Null /\ t # 0
OrZero(t) == IF t = Null THEN 0 ELSE t

NewFruit(tierIndex, x, y, vx, vy, last0) ==
    [ tier |-> tierIndex, radius |-> getFruitRadius(tierIndex),
      lastMergeAt |-> last0, merging |-> FALSE,
      x |-> x, y |-> y, vx |-> vx, vy |-> vy ]

Dist2(a, b) == (a.x - b.x) * (a.x - b.x) + (a.y - b.y) * (a.y - b.y)
RelV2(a, b) == (a.vx - b.vx) * (a.vx - b.vx) + (a.vy - b.vy) * (a.vy - b.vy)

(* OverlapOK without the tolerance: dist <= rA + rB *)
OverlapOK_Touching(a, b) ==
    Dist2(a, b) <= (PosScale * (a.radius + b.radius)) * (PosScale * (a.radius + b.radius))

(* dist <= (rA + rB) - min(rA, rB) * 0.15, both sides scaled and squared;
   bodies further apart than rA + rB are settled first, to keep the products
   small *)
OverlapOK(a, b) ==
    LET need == MERGE_EPSILON_DEN * PosScale * (a.radius + b.radius)
                  - MERGE_EPSILON_NUM * PosScale * Min(a.radius, b.radius)
        far == PosScale * (a.radius + b.radius)
    IN  /\ Dist2(a, b) <= far * far
        /\ MERGE_EPSILON_DEN * MERGE_EPSILON_DEN * Dist2(a, b) <= need * need

(* dist <= limit world units *)
DistLE(a, b, limit) == Dist2(a, b) <= (limit * PosScale) * (limit * PosScale)

(* relV < limit, relV <= limit; the second without squaring the limit, which
   is 9999 and would leave the 32-bit integers of the checker *)
RelVLess(a, b, limit) == RelV2(a, b) < (limit * PosScale) * (limit * PosScale)
RelVLE(a, b, limit) ==
    LET l == limit * PosScale
        q == RelV2(a, b) \div l
    IN  q < l \/ (q = l /\ RelV2(a, b) % l = 0)

OnCooldown(t, now) == now - t < MERGE_COOLDOWN_MS * TimeScale

Half(n) == n \div 2

----------------------------------------------------------------------------
(* The part of the Game a merge reads and writes, as one record *)

GameRec ==
    [ bodies |-> bodies, world |-> world, nextId |-> nextId,
      score |-> score, best |-> best, comboCount |-> comboCount,
      lastMergeTime |-> lastMergeTime, merged |-> mergedThisFrame,
      log |-> mergeLog, crashed |-> FALSE ]

Live(g) == DOMAIN g.bodies

(* createFruit without World.add *)
createFruit_RegistryOnly(g, tierIndex, x, y, vx, vy, last0) ==
    IF tierIndex < 0 \/ tierIndex >= TIER_COUNT
    THEN [ g EXCEPT !.crashed = TRUE ]
    ELSE [ g EXCEPT !.bodies = g.bodies
                                 @@ (g.nextId :> NewFruit(tierIndex, x, y, vx, vy, last0)),
                    !.nextId = g.nextId + 1 ]

(* Game.createFruit: TIER_CONFIG[tierIndex] is undefined past the ladder and
   reading cfg.mass throws before any body is made *)
createFruit(g, tierIndex, x, y, vx, vy, last0) ==
    IF tierIndex < 0 \/ tierIndex >= TIER_COUNT
    THEN [ g EXCEPT !.crashed = TRUE ]
    ELSE [ g EXCEPT !.bodies = g.bodies
                                 @@ (g.nextId :> NewFruit(tierIndex, x, y, vx, vy, last0)),
                    !.world = g.world \cup { g.nextId },
                    !.nextId = g.nextId + 1 ]

(* World.remove and the filter of Game.bodies *)
removeFruitBody(g, id) ==
    [ g EXCEPT !.bodies = [ i \in DOMAIN g.bodies \ { id } |-> g.bodies[i] ],
               !.world = g.world \ { id } ]

(* ComboAfter with the window test left out *)
ComboAfter_AlwaysOne(combo, last, now) == 1

(* scoring and combo of one merge; factor is t + 1 *)
ComboAfter(combo, last, now) ==
    IF now - last <= comboWindowMs * TimeScale THEN combo + 1 ELSE 1

(* Gained with the tier of the sources for the factor *)
Gained_SourceTier(factor, combo) == (mergeBase * (factor - 1)) * combo

Gained(factor, combo) == (mergeBase * factor) * combo

(* addScore without the update of best *)
addScore_BestLeft(g, factor, now) ==
    LET c == ComboAfter(g.comboCount, g.lastMergeTime, now)
    IN  [ g EXCEPT !.comboCount = c, !.lastMergeTime = now,
                   !.score = g.score + Gained(factor, c) ]

addScore(g, factor, now) ==
    LET c == ComboAfter(g.comboCount, g.lastMergeTime, now)
        s == g.score + Gained(factor, c)
    IN  [ g EXCEPT !.comboCount = c, !.lastMergeTime = now, !.score = s,
                   !.best = IF s > g.best THEN s ELSE g.best ]

(* one entry of the history of the merges of a frame: g0 before the merge,
   g1 after it, fa and fb the two source bodies, made the fruit created;
   step tells the iterations of while (acc >= step) apart, where is the
   position inside tick at which the merge ran *)
LogEntry(g0, g1, pass, a, b, fa, fb, now) ==
    [ step |-> acc, pass |-> pass, where |-> pc, a |-> a, b |-> b,
      fa |-> fa, fb |-> fb,
      made |-> IF g1.crashed THEN fa ELSE g1.bodies[g1.nextId - 1],
      c |-> IF g1.crashed THEN 0 ELSE g1.nextId - 1,
      tier |-> fa.tier, tierB |-> fb.tier,
      newTier |-> IF g1.crashed THEN Null ELSE g1.bodies[g1.nextId - 1].tier,
      at |-> now,
      aLast |-> fa.lastMergeAt, bLast |-> fb.lastMergeAt,
      aLive |-> a \in Live(g0), bLive |-> b \in Live(g0),
      combo0 |-> g0.comboCount, last0 |-> g0.lastMergeTime, score0 |-> g0.score,
      combo |-> g1.comboCount, last |-> g1.lastMergeTime,
      gain |-> g1.score - g0.score,
      liveBefore |-> Cardinality(Live(g0)), liveAfter |-> Cardinality(Live(g1)),
      ok |-> ~g1.crashed ]

Logged(g0, g1, pass, a, b, fa, fb, now) ==
    [ g1 EXCEPT !.log = Append(g0.log, LogEntry(g0, g1, pass, a, b, fa, fb, now)) ]

----------------------------------------------------------------------------
(* Revision C: MergeManager *)

isValidMergePair(a, b, now) ==
    /\ a.tier = b.tier
    /\ ~(a.merging \/ b.merging)
    /\ ~(Truthy(a.lastMergeAt) /\ OnCooldown(a.lastMergeAt, now))
    /\ ~(Truthy(b.lastMergeAt) /\ OnCooldown(b.lastMergeAt, now))
    /\ OverlapOK(a, b)
    /\ RelVLE(a, b, MERGE_MAX_REL_V)

(* Query.region: the bodies whose bounds overlap the square of half-width
   2 * radius around body a *)
InRegion(a, o) ==
    LET sr == 2 * a.radius * PosScale
        ro == o.radius * PosScale
    IN  /\ o.x - ro <= a.x + sr /\ o.x + ro >= a.x - sr
        /\ o.y - ro <= a.y + sr /\ o.y + ro >= a.y - sr

(* a MergePair: the two bodies, by id and by the object the pair refers to;
   via tells the entries of the proximity scan (line 56) from the entries a
   collision listener pushes (lines 32 and 42) *)
MergePair(bs, a, b) == [ a |-> a, b |-> b, fa |-> bs[a], fb |-> bs[b], via |-> "scan" ]

EventPair(bs, a, b) == [ a |-> a, b |-> b, fa |-> bs[a], fb |-> bs[b], via |-> "event" ]

(* lines 27-35 and 37-45: what one listener pushes for the reported pairs *)
RECURSIVE onCollisionC(_, _, _, _)
onCollisionC(bs, pairs, i, now) ==
    IF i > Len(pairs) THEN << >>
    ELSE LET a == pairs[i][1]
             b == pairs[i][2]
         IN  (IF isValidMergePair(bs[a], bs[b], now)
              THEN << EventPair(bs, a, b) >> ELSE << >>)
               \o onCollisionC(bs, pairs, i + 1, now)

RECURSIVE ScanOthers(_, _, _, _, _)
ScanOthers(bs, a, others, i, now) ==
    IF i > Len(others) THEN << >>
    ELSE LET o == others[i]
             hit == o # a /\ InRegion(bs[a], bs[o])
                          /\ isValidMergePair(bs[a], bs[o], now)
         IN  (IF hit THEN << MergePair(bs, a, o) >> ELSE << >>)
               \o ScanOthers(bs, a, others, i + 1, now)

RECURSIVE ScanBodies(_, _, _, _, _)
ScanBodies(bs, wd, order, i, now) ==
    IF i > Len(order) THEN << >>
    ELSE ScanOthers(bs, order[i], SortedIds(wd), 1, now)
           \o ScanBodies(bs, wd, order, i + 1, now)

(* the candidates collectCandidates leaves: the pairs its listeners push go
   to the array of the step before, which line 23 has replaced *)
collectCandidates(bs, wd, now) == ScanBodies(bs, wd, SortedIds(DOMAIN bs), 1, now)

(* SkipPairC without the usedBodies tests of lines 100 and 109-110 *)
SkipPairC_IgnoringUsed(merged, used, p, now) ==
    \/ p.a \in merged \/ p.b \in merged
    \/ p.fa.merging \/ p.fb.merging
    \/ (Truthy(p.fa.lastMergeAt) /\ OnCooldown(p.fa.lastMergeAt, now))
    \/ (Truthy(p.fb.lastMergeAt) /\ OnCooldown(p.fb.lastMergeAt, now))

(* SkipPairC without the mergedThisFrame test of line 101 *)
SkipPairC_IgnoringMerged(merged, used, p, now) ==
    \/ p.a \in used \/ p.b \in used
    \/ p.fa.merging \/ p.fb.merging
    \/ (Truthy(p.fa.lastMergeAt) /\ OnCooldown(p.fa.lastMergeAt, now))
    \/ (Truthy(p.fb.lastMergeAt) /\ OnCooldown(p.fb.lastMergeAt, now))
    \/ Min(p.a, p.b) \in used

(* lines 99-115: the pairs one pass selects *)
SkipPairC(merged, used, p, now) ==
    \/ p.a \in used \/ p.b \in used
    \/ p.a \in merged \/ p.b \in merged
    \/ p.fa.merging \/ p.fb.merging
    \/ (Truthy(p.fa.lastMergeAt) /\ OnCooldown(p.fa.lastMergeAt, now))
    \/ (Truthy(p.fb.lastMergeAt) /\ OnCooldown(p.fb.lastMergeAt, now))
    \/ Min(p.a, p.b) \in used

RECURSIVE SelectPairsC(_, _, _, _, _)
SelectPairsC(cands, i, merged, used, now) ==
    IF i > Len(cands) THEN << >>
    ELSE LET p == cands[i]
         IN  IF SkipPairC(merged, used, p, now)
             THEN SelectPairsC(cands, i + 1, merged, used, now)
             ELSE << p >> \o SelectPairsC(cands, i + 1, merged,
                                          used \cup { p.a, p.b }, now)

(* lines 377-391: the createFruit callback of tick *)
createFruitCallback(g, tier, x, y, vx, vy, now) ==
    LET g1 == createFruit(g, tier, x, y, vx, vy, Null)
    IN  IF g1.crashed THEN g1 ELSE addScore(g1, tier, now)

(* lines 120-146: one selected pair *)
ExecPairC(g, p, pass, now) ==
    LET a == p.fa
        b == p.fb
        newTier == a.tier + 1
    IN  IF newTier >= TIER_COUNT THEN g
        ELSE LET g1 == removeFruitBody(removeFruitBody(g, p.a), p.b)
                 g2 == createFruitCallback(g1, newTier, Half(a.x + b.x), Half(a.y + b.y),
                                           Half(a.vx + b.vx), Half(a.vy + b.vy), now)
                 c  == g2.nextId - 1
                 g3 == [ g2 EXCEPT !.bodies[c].lastMergeAt = now,
                                   !.merged = g2.merged \cup { p.a, p.b, c } ]
             IN  Logged(g, g3, pass, p.a, p.b, a, b, now)

RECURSIVE ExecPairsC(_, _, _, _, _)
ExecPairsC(g, pairs, i, pass, now) ==
    IF i > Len(pairs) THEN g
    ELSE ExecPairsC(ExecPairC(g, pairs[i], pass, now), pairs, i + 1, pass, now)

----------------------------------------------------------------------------
(* Pair keys of revisions A and B: `${A.id}-${B.id}` with the smaller id
   first, read back by split('-').map(Number) *)

key(a, b) == IF a <= b THEN << a, b >> ELSE << b, a >>

(* Set.add keeps the insertion order and ignores a key it already holds *)
SetAdd(set, k) ==
    IF \E i \in 1..Len(set) : set[i] = k THEN set ELSE Append(set, k)

----------------------------------------------------------------------------
(* Revision A: config.ts 59-397 *)

addMergeCandidate(bs, set, a, b) ==
    IF bs[a].tier # bs[b].tier THEN set
    ELSE IF OverlapOK(bs[a], bs[b]) THEN SetAdd(set, key(a, b)) ELSE set

RECURSIVE onCollisionPairsA(_, _, _, _)
onCollisionPairsA(bs, set, pairs, i) ==
    IF i > Len(pairs) THEN set
    ELSE LET p == pairs[i]
         IN  onCollisionPairsA(bs,
                 IF bs[p[1]].tier = bs[p[2]].tier
                 THEN addMergeCandidate(bs, set, p[1], p[2]) ELSE set,
                 pairs, i + 1)

SkipPairA(g, used, k, now) ==
    \/ k[1] \notin g.world \/ k[2] \notin g.world
    \/ g.bodies[k[1]].tier # g.bodies[k[2]].tier
    \/ k[1] \in used \/ k[2] \in used
    \/ OnCooldown(OrZero(g.bodies[k[1]].lastMergeAt), now)
    \/ OnCooldown(OrZero(g.bodies[k[2]].lastMergeAt), now)

RECURSIVE SelectPairsA(_, _, _, _, _)
SelectPairsA(g, cands, i, used, now) ==
    IF i > Len(cands) THEN << >>
    ELSE LET k == cands[i]
         IN  IF SkipPairA(g, used, k, now)
             THEN SelectPairsA(g, cands, i + 1, used, now)
             ELSE << k >> \o SelectPairsA(g, cands, i + 1, used \cup { k[1], k[2] }, now)

(* config.ts 201-230: one pair of processMerges *)
ExecPairA(g, k, now) ==
    LET a == g.bodies[k[1]]
        b == g.bodies[k[2]]
        t == a.tier
        g1 == removeFruitBody(removeFruitBody(g, k[1]), k[2])
        g2 == createFruit(g1, t + 1, Half(a.x + b.x), Half(a.y + b.y), 0, 0, 0)
        c  == g2.nextId - 1
        g3 == [ g2 EXCEPT !.bodies[c].vx = Half(a.vx + b.vx),
                          !.bodies[c].vy = Half(a.vy + b.vy),
                          !.bodies[c].lastMergeAt = now ]
    IN  IF g2.crashed THEN Logged(g, g2, 1, k[1], k[2], a, b, now)
        ELSE Logged(g, addScore(g3, t + 1, now), 1, k[1], k[2], a, b, now)

RECURSIVE ExecPairsA(_, _, _, _)
ExecPairsA(g, pairs, i, now) ==
    IF i > Len(pairs) \/ g.crashed THEN g
    ELSE ExecPairsA(ExecPairA(g, pairs[i], now), pairs, i + 1, now)

(* config.ts 175-233 *)
processMergesA(g, cands, now) ==
    IF cands = << >> THEN g
    ELSE ExecPairsA(g, SelectPairsA(g, cands, 1, {}, now), 1, now)

----------------------------------------------------------------------------
(* Revision B: config.ts 412-875 *)

(* the conditions lines 507-520, 528-550, 574-586, 623-633 repeat *)
CloseAndSlowB(a, b) == OverlapOK(a, b) /\ RelVLess(a, b, VELOCITY_THRESHOLD)

detectMergeCandidate(bs, set, a, b, now) ==
    IF \/ bs[a].tier # bs[b].tier
       \/ bs[a].merging \/ bs[b].merging
       \/ OnCooldown(OrZero(bs[a].lastMergeAt), now)
       \/ OnCooldown(OrZero(bs[b].lastMergeAt), now)
    THEN set
    ELSE IF CloseAndSlowB(bs[a], bs[b]) THEN SetAdd(set, key(a, b)) ELSE set

RECURSIVE onCollisionPairsB(_, _, _, _, _)
onCollisionPairsB(bs, set, pairs, i, now) ==
    IF i > Len(pairs) THEN set
    ELSE onCollisionPairsB(bs, detectMergeCandidate(bs, set, pairs[i][1], pairs[i][2], now),
                           pairs, i + 1, now)

ProximityHit(bs, f, o, now) ==
    /\ f # o
    /\ ~bs[o].merging
    /\ bs[f].tier = bs[o].tier
    /\ ~OnCooldown(OrZero(bs[o].lastMergeAt), now)
    /\ DistLE(bs[f], bs[o], Max(bs[f].radius, bs[o].radius) + SCAN_MARGIN)
    /\ CloseAndSlowB(bs[f], bs[o])

RECURSIVE ProximityInner(_, _, _, _, _, _)
ProximityInner(bs, set, f, order, j, now) ==
    IF j > Len(order) THEN set
    ELSE ProximityInner(bs,
             IF ProximityHit(bs, f, order[j], now) THEN SetAdd(set, key(f, order[j])) ELSE set,
             f, order, j + 1, now)

RECURSIVE ProximityOuter(_, _, _, _, _)
ProximityOuter(bs, set, order, i, now) ==
    IF i > Len(order) THEN set
    ELSE LET f == order[i]
             skip == bs[f].merging \/ OnCooldown(OrZero(bs[f].lastMergeAt), now)
         IN  ProximityOuter(bs,
                 IF skip THEN set ELSE ProximityInner(bs, set, f, order, 1, now),
                 order, i + 1, now)

checkProximityForMerges(bs, set, now) ==
    ProximityOuter(bs, set, SortedIds(DOMAIN bs), 1, now)

(* the first body of Game.bodies that checkChainMerges merges newFruit with;
   0 when there is none *)
ChainPartner(g, c, now) ==
    LET ok(o) == /\ o # c
                 /\ g.bodies[o].tier = g.bodies[c].tier
                 /\ ~g.bodies[o].merging
                 /\ ~OnCooldown(OrZero(g.bodies[o].lastMergeAt), now)
                 /\ CloseAndSlowB(g.bodies[c], g.bodies[o])
        S == { o \in Live(g) : ok(o) }
    IN  IF S = {} THEN 0 ELSE CHOOSE o \in S : \A q \in S : o <= q

(* markMerging setting the flag on every live fruit of the tier of a *)
markMerging_Bystanders(g, ia, ib) ==
    [ g EXCEPT !.bodies = [ i \in DOMAIN g.bodies |->
          IF g.bodies[i].tier = g.bodies[ia].tier
          THEN [ g.bodies[i] EXCEPT !.merging = TRUE ] ELSE g.bodies[i] ] ]

(* a.plugin.merging = b.plugin.merging = true, config.ts 650 and part_001 84 *)
markMerging(g, ia, ib) ==
    [ g EXCEPT !.bodies[ia].merging = TRUE, !.bodies[ib].merging = TRUE ]

(* config.ts 643-685 with checkChainMerges 687-711 *)
RECURSIVE performMerge(_, _, _, _, _)
performMerge(g, ia, ib, now, pass) ==
    LET a == g.bodies[ia]
        b == g.bodies[ib]
        tier == a.tier
    IN  IF a.tier # b.tier THEN g
        ELSE IF tier >= TIER_COUNT - 1 THEN g
        ELSE LET g1 == removeFruitBody(removeFruitBody(markMerging(g, ia, ib), ia), ib)
                 g2 == createFruit(g1, tier + 1, Half(a.x + b.x),
                                   Half(a.y + b.y) - MERGE_LIFT * PosScale, 0, 0, Null)
                 c  == g2.nextId - 1
                 g3 == [ g2 EXCEPT !.bodies[c].vx = Half(a.vx + b.vx),
                                   !.bodies[c].vy = Half(a.vy + b.vy),
                                   !.bodies[c].lastMergeAt = now ]
                 g4 == Logged(g, addScore(g3, tier + 1, now), pass, ia, ib, a, b, now)
                 o  == ChainPartner(g4, c, now)
             IN  IF o = 0 THEN g4 ELSE performMerge(g4, c, o, now, pass)

(* config.ts 557-595 *)
SkipPairB(g, used, k, now) ==
    \/ k[1] \notin Live(g) \/ k[2] \notin Live(g)
    \/ g.bodies[k[1]].tier # g.bodies[k[2]].tier
    \/ k[1] \in used \/ k[2] \in used
    \/ g.bodies[k[1]].merging \/ g.bodies[k[2]].merging
    \/ OnCooldown(OrZero(g.bodies[k[1]].lastMergeAt), now)
    \/ OnCooldown(OrZero(g.bodies[k[2]].lastMergeAt), now)
    \/ ~CloseAndSlowB(g.bodies[k[1]], g.bodies[k[2]])

RECURSIVE processMergesB(_, _, _, _, _)
processMergesB(g, cands, i, used, now) ==
    IF i > Len(cands) THEN g
    ELSE LET k == cands[i]
         IN  IF SkipPairB(g, used, k, now)
             THEN processMergesB(g, cands, i + 1, used, now)
             ELSE processMergesB(performMerge(g, k[1], k[2], now, 1), cands, i + 1,
                                 used \cup { k[1], k[2] }, now)

(* config.ts 597-641: fruits is the array of one tier, built before any merge
   of the call; a body merged since is no longer live and has merging set *)
ChainPairOK(g, a, b, now) ==
    /\ a \in Live(g) /\ b \in Live(g)
    /\ ~OnCooldown(OrZero(g.bodies[a].lastMergeAt), now)
    /\ ~OnCooldown(OrZero(g.bodies[b].lastMergeAt), now)
    /\ CloseAndSlowB(g.bodies[a], g.bodies[b])

RECURSIVE ChainTier(_, _, _, _, _)
ChainTier(g, fruits, i, j, now) ==
    IF i > Len(fruits) THEN g
    ELSE IF j > Len(fruits) THEN ChainTier(g, fruits, i + 1, i + 2, now)
    ELSE IF ChainPairOK(g, fruits[i], fruits[j], now)
         THEN ChainTier(performMerge(g, fruits[i], fruits[j], now, 2),
                        fruits, i + 1, i + 2, now)
         ELSE ChainTier(g, fruits, i, j + 1, now)

(* the tiers of the Map in the order their first body stands in Game.bodies *)
RECURSIVE TierOrder(_, _, _, _)
TierOrder(bs, order, i, seen) ==
    IF i > Len(order) THEN << >>
    ELSE LET t == bs[order[i]].tier
         IN  IF t \in seen THEN TierOrder(bs, order, i + 1, seen)
             ELSE << t >> \o TierOrder(bs, order, i + 1, seen \cup { t })

RECURSIVE ChainTiers(_, _, _, _, _)
ChainTiers(g, bs0, tiers, i, now) ==
    IF i > Len(tiers) THEN g
    ELSE LET fruits == SortedIds({ f \in DOMAIN bs0 : bs0[f].tier = tiers[i] })
         IN  IF Len(fruits) < 2 \/ tiers[i] >= TIER_COUNT - 1
             THEN ChainTiers(g, bs0, tiers, i + 1, now)
             ELSE ChainTiers(ChainTier(g, fruits, 1, 2, now), bs0, tiers, i + 1, now)

processChainMerges(g, now) ==
    ChainTiers(g, g.bodies, TierOrder(g.bodies, SortedIds(Live(g)), 1, {}), 1, now)

----------------------------------------------------------------------------
(* Revision P: the prototype of src/unnamed/part_001 *)

GENTLE_REL_SPEED2 == 6
POP_LIFT == 6
POP_VY == 3

(* tryMerge, part_001 75-105.  A body removed by an earlier pair of the same
   event carries merging = true, which is what its absence stands for. *)
tryMerge(g, ia, ib, now) ==
    IF ia \notin Live(g) \/ ib \notin Live(g) THEN g
    ELSE LET a == g.bodies[ia]
             b == g.bodies[ib]
             tier == a.tier
         IN  IF a.tier # b.tier THEN g
             ELSE IF a.merging \/ b.merging THEN g
             ELSE IF RelV2(a, b) > GENTLE_REL_SPEED2 * PosScale * PosScale THEN g
             ELSE IF tier >= TIER_COUNT - 1 THEN g
             ELSE LET g1 == removeFruitBody(removeFruitBody(markMerging(g, ia, ib), ia), ib)
                      g2 == createFruit(g1, tier + 1, Half(a.x + b.x),
                                        Half(a.y + b.y) - POP_LIFT * PosScale,
                                        0, 0 - POP_VY * PosScale, Null)
                  IN  Logged(g, addScore(g2, tier + 1, now), 1, ia, ib, a, b, now)

(* the collisionStart listener, part_001 61-73 *)
RECURSIVE onCollisionStartP(_, _, _, _)
onCollisionStartP(g, pairs, i, now) ==
    IF i > Len(pairs) THEN g
    ELSE onCollisionStartP(tryMerge(g, pairs[i][1], pairs[i][2], now), pairs, i + 1, now)

(* updateGameOver of the prototype, part_001 145-158: strict comparison and
   no drop guard *)
AnyOverP(bs) ==
    \E i \in DOMAIN bs :
        bs[i].y - getFruitRadius(bs[i].tier) * PosScale < gameOverLineY * PosScale

OverTimerAfterP(bs, timer, dt) == IF AnyOverP(bs) THEN timer + dt ELSE 0

TriggersGameOverP(bs, timer, dt, over) ==
    AnyOverP(bs) /\ timer + dt >= DEBOUNCE_MS * TimeScale /\ ~over

----------------------------------------------------------------------------
(* Game-over monitor, lines 279-300 *)

AnyOver(bs) ==
    \E i \in DOMAIN bs :
        bs[i].y - getFruitRadius(bs[i].tier) * PosScale <= gameOverLineY * PosScale

(* OverTimerAfter without the reset of line 298 *)
OverTimerAfter_NoReset(bs, timer, dt) == IF AnyOver(bs) THEN timer + dt ELSE timer

OverTimerAfter(bs, timer, dt) == IF AnyOver(bs) THEN timer + dt ELSE 0

TriggersGameOver(bs, timer, dt, over) ==
    AnyOver(bs) /\ timer + dt >= DEBOUNCE_MS * TimeScale /\ ~over

(* rollNext: r stands for Math.random() * sum, counted in 60ths *)
RECURSIVE RollIndex(_, _)
RollIndex(r, i) ==
    IF i > maxStartTier THEN 0
    ELSE LET r1 == r - (60 \div (i + 1))
         IN  IF r1 <= 0 THEN i ELSE RollIndex(r1, i + 1)

(* rollNext drawing from the whole ladder *)
RECURSIVE RollIndexAll(_, _)
RollIndexAll(r, i) ==
    IF i > TIER_COUNT - 1 THEN 0
    ELSE LET r1 == r - (60 \div (i + 1))
         IN  IF r1 <= 0 THEN i ELSE RollIndexAll(r1, i + 1)

rollNext_WholeLadder(r) == RollIndexAll(r, 0)

rollNext(r) == RollIndex(r, 0)

----------------------------------------------------------------------------
(* What the environment supplies: frame times, random numbers, the outcome
   of a physics update *)

DtSet == { STEP_UNITS, 59 * STEP_UNITS }
RandSet == { 0, 61 }
DropXSet == { 200 * PosScale }

(* Where Engine.update may take a fruit that hangs at the spawn height: the
   resting places of the floor.  The outer two are 40 apart, the middle one
   20 from both and still sinking. *)
Places ==
    << [ x |-> 180 * PosScale, y |-> 400 * PosScale, vx |-> 0, vy |-> 0 ],
       [ x |-> 220 * PosScale, y |-> 400 * PosScale, vx |-> 0, vy |-> 0 ],
       [ x |-> 200 * PosScale, y |-> 400 * PosScale, vx |-> 0, vy |-> 2 * PosScale ] >>

Slot(id) == Places[((id - 1) % Len(Places)) + 1]

MoveTo(f, k) == [ f EXCEPT !.x = k.x, !.y = k.y, !.vx = k.vx, !.vy = k.vy ]

AtSpawn(bs) == { i \in DOMAIN bs : bs[i].y = spawnY * PosScale }

(* the bodies after Engine.update: each fruit at the spawn height has stayed
   there or has fallen to its place; the others rest *)
Moves(bs) ==
    { [ i \in DOMAIN bs |-> IF i \in S THEN MoveTo(bs[i], Slot(i)) ELSE bs[i] ] :
        S \in SUBSET AtSpawn(bs) }

Touching(a, b) == DistLE(a, b, a.radius + b.radius)

TouchingPairs(bs) ==
    { p \in (DOMAIN bs) \X (DOMAIN bs) : p[1] < p[2] /\ Touching(bs[p[1]], bs[p[2]]) }

Injective(q) == \A i, j \in DOMAIN q : i # j => q[i] # q[j]

(* the contact pairs one update reports to the collision listeners *)
Reports(bs) ==
    LET T == TouchingPairs(bs)
    IN  { q \in UNION { [ 1..n -> T ] : n \in 0..MaxReported } : Injective(q) }

(* the pairs in contact after an update, in the order of their ids: between
   them the collisionStart and the collisionActive listener of game.ts are
   handed every one of them *)
RECURSIVE PairsInOrder(_)
PairsInOrder(T) ==
    IF T = {} THEN << >>
    ELSE LET p == CHOOSE x \in T : \A y \in T :
                      x[1] < y[1] \/ (x[1] = y[1] /\ x[2] <= y[2])
         IN  << p >> \o PairsInOrder(T \ { p })

InContact(bs) == PairsInOrder(TouchingPairs(bs))

----------------------------------------------------------------------------
(* Initial states.  Fresh is the Game after start(): no fruit, the stored
   best score read back.  LateGame is a session that has reached the top of
   the ladder: two fruits of the last tier, made by merges long ago, and the
   score such a session has at least. *)

StartClock == 150
WALL_BODIES == 4

(* the merge listeners on collisionStart: wireEvents registers one in the
   prototype and in the revisions of config.ts; in game.ts every call of
   collectCandidates registers one more (line 27) and none is removed, so a
   session that ran n steps holds n *)
ListenersAt(r, steps) == IF r = "C" THEN steps ELSE 1

ClockAnomalies == { 0, 0 - STEP_UNITS }
BestStored == { 0, 30 }
Revisions == { "P", "A", "B", "C" }

NoBodies == << >>

Fresh(r, b) ==
    /\ rev = r /\ best = b
    /\ clock = StartClock /\ bodies = NoBodies /\ world = {} /\ nextId = 1
    /\ score = 0 /\ comboCount = 0 /\ lastMergeTime = 0
    /\ hasDroppedFruit = FALSE
    /\ listeners = ListenersAt(r, 0)
    /\ hostWindow = "fixed"

LateGame(r) ==
    /\ rev = r /\ best = 7440
    /\ clock = 9000
    /\ bodies = (1 :> MoveTo(NewFruit(TIER_COUNT - 1, 0, 0, 0, 0, 3000), Slot(1)))
                  @@ (2 :> NewFruit(TIER_COUNT - 1, 200 * PosScale, spawnY * PosScale, 0, 0, 6000))
    /\ world = { 1, 2 } /\ nextId = 3
    /\ score = 7440 /\ comboCount = 1 /\ lastMergeTime = 6000
    /\ hasDroppedFruit = TRUE
    /\ listeners = ListenersAt(r, clock \div STEP_UNITS)
    /\ hostWindow = IF r = "C" THEN "resizable" ELSE "fixed"

NoTry == [ at |-> Null, last0 |-> 0, ok |-> FALSE ]

(* a page whose game was started once and runs one tick loop; no pointer is
   down and no drop was accepted yet *)
PageRunning ==
    /\ games = 1 /\ started = TRUE /\ resumeArmed = FALSE
    /\ starting = 0 /\ initing = 0 /\ loops = 1 /\ soundListeners = 1
    /\ muted = FALSE /\ lastDropAt = 0 /\ touchX = FALSE /\ press = "none"
    /\ lastTry = NoTry /\ pendingDrops = 0 /\ events = 0

Init ==
    /\ pc = "idle" /\ loopAlive = TRUE /\ frames = 0
    /\ acc = 0 /\ tickDt = 0 /\ moved = 0
    /\ nextTierIndex \in { rollNext(r) : r \in RandSet }
    /\ gameOver = FALSE /\ overTimer = 0 /\ paused = FALSE
    /\ inputDrop = FALSE
    /\ mergeCandidates = << >> /\ mergedThisFrame = {}
    /\ passNo = 0 /\ stepLive = 0 /\ mergeLog = << >> /\ aboveRun = 0
    /\ walls = WALL_BODIES /\ eventPairs = << >> /\ hostClock = "steady"
    /\ PageRunning
    /\ \E r \in Revisions :
         \/ \E b \in BestStored : Fresh(r, b)
         \/ LateGame(r)

----------------------------------------------------------------------------
(* Actions *)

ApplyGame(g) ==
    /\ bodies' = g.bodies /\ world' = g.world /\ nextId' = g.nextId
    /\ score' = g.score /\ best' = g.best
    /\ comboCount' = g.comboCount /\ lastMergeTime' = g.lastMergeTime
    /\ mergedThisFrame' = g.merged /\ mergeLog' = g.log

(* InitialLast stamping the fruit with the time of the last frame *)
InitialLast_Stamped == clock

(* lastMergeAt of a fruit createFruit has just made *)
InitialLast == IF rev = "A" THEN 0 ELSE Null

(* Drops without the test of gameOver *)
Drops_IgnoringOver == inputDrop /\ ~paused

(* Drops without the test of paused *)
Drops_IgnoringPause == inputDrop /\ ~gameOver

(* dropFruit, lines 267-277 *)
Drops == inputDrop /\ ~gameOver /\ ~paused

dropFruit(g, x) == createFruit(g, nextTierIndex, x, spawnY * PosScale, 0, 0, InitialLast)

PassesOf(log) == Cardinality({ log[i].pass : i \in DOMAIN log })

(* dt = now - last of line 359: what the host clock may deliver *)
HostDt == IF hostClock = "steady" THEN DtSet ELSE DtSet \cup ClockAnomalies

(* tick, lines 358-369: the clock, the accumulator, the drop request *)
TickBegin ==
    /\ pc = "idle" /\ loopAlive /\ frames < MaxFrames
    /\ \E dt \in HostDt, r \in RandSet, x \in DropXSet :
         LET g == IF Drops THEN dropFruit(GameRec, x) ELSE GameRec
         IN  /\ clock' = clock + dt /\ tickDt' = dt /\ frames' = frames + 1
             /\ acc' = Min(acc + dt, ACC_CAP_MS * TimeScale)
             /\ inputDrop' = FALSE
             /\ bodies' = g.bodies /\ world' = g.world /\ nextId' = g.nextId
             /\ hasDroppedFruit' = (hasDroppedFruit \/ Drops)
             /\ nextTierIndex' = IF Drops THEN rollNext(r) ELSE nextTierIndex
             /\ pc' = IF ~paused /\ ~gameOver THEN "loop" ELSE "idle"
    /\ moved' = 0 /\ passNo' = 0 /\ stepLive' = 0 /\ mergeLog' = << >>
    /\ UNCHANGED << rev, loopAlive, score, best, comboCount, lastMergeTime, gameOver,
                    overTimer, paused, mergeCandidates, mergedThisFrame, aboveRun >>
    /\ UNCHANGED << walls, listeners, eventPairs, hostClock, hostWindow >>
    /\ UNCHANGED pageVars
    /\ pendingDrops' = 0

(* revision A, config.ts 375-379: Engine.update, processMerges, acc -= step *)
SubstepA ==
    /\ rev = "A" /\ pc = "loop" /\ acc >= STEP_UNITS /\ moved < MaxMovingSubsteps
    /\ \E bs1 \in Moves(bodies) : \E rep \in Reports(bs1) :
         LET cands == onCollisionPairsA(bs1, mergeCandidates, rep, 1)
             g == processMergesA([ GameRec EXCEPT !.bodies = bs1 ], cands, clock)
         IN  /\ ApplyGame(g)
             /\ loopAlive' = ~g.crashed
             /\ pc' = IF g.crashed THEN "idle" ELSE "loop"
             /\ acc' = IF g.crashed THEN acc ELSE acc - STEP_UNITS
             /\ passNo' = IF Len(g.log) > Len(mergeLog) THEN 1 ELSE 0
             /\ stepLive' = Cardinality(DOMAIN bs1)
    /\ mergeCandidates' = << >>
    /\ moved' = moved + 1
    /\ UNCHANGED << rev, clock, frames, tickDt, nextTierIndex, gameOver, overTimer,
                    paused, hasDroppedFruit, inputDrop, aboveRun >>
    /\ UNCHANGED << walls, listeners, eventPairs, hostClock, hostWindow >>
    /\ UNCHANGED pageVars
    /\ UNCHANGED pendingDrops

(* revision B, config.ts 851: Engine.update; the listeners add candidates *)
SubstepB ==
    /\ rev = "B" /\ pc = "loop" /\ acc >= STEP_UNITS /\ moved < MaxMovingSubsteps
    /\ \E bs1 \in Moves(bodies) : \E rep \in Reports(bs1) :
         /\ bodies' = bs1
         /\ mergeCandidates' = onCollisionPairsB(bs1, mergeCandidates, rep, 1, clock)
    /\ acc' = acc - STEP_UNITS
    /\ moved' = moved + 1
    /\ UNCHANGED << rev, loopAlive, pc, clock, frames, tickDt, world, nextId,
                    nextTierIndex, score, best, comboCount, lastMergeTime, gameOver,
                    overTimer, paused, hasDroppedFruit, inputDrop, mergedThisFrame,
                    passNo, stepLive, mergeLog, aboveRun >>
    /\ UNCHANGED << walls, listeners, eventPairs, hostClock, hostWindow >>
    /\ UNCHANGED pageVars
    /\ UNCHANGED pendingDrops

(* revision C, game.ts 370-376: Engine.update, acc -= step, collectCandidates;
   past MaxMovingSubsteps the bodies rest *)
SubstepC ==
    /\ rev = "C" /\ pc = "loop" /\ acc >= STEP_UNITS
    /\ \E bs1 \in (IF moved < MaxMovingSubsteps THEN Moves(bodies) ELSE { bodies }) :
         LET pushed == IF listeners > 0
                       THEN onCollisionC(bs1, InContact(bs1), 1, clock) ELSE << >>
             cands == collectCandidates(bs1, world, clock)
         IN  /\ moved < MaxMovingSubsteps \/ cands # << >>
             /\ bodies' = bs1
             /\ eventPairs' = pushed
             /\ mergeCandidates' = cands
             /\ stepLive' = Cardinality(DOMAIN bs1)
    /\ listeners' = listeners + 1
    /\ mergedThisFrame' = {}
    /\ acc' = acc - STEP_UNITS
    /\ moved' = Min(moved + 1, MaxMovingSubsteps)
    /\ pc' = "process" /\ passNo' = 0
    /\ UNCHANGED << rev, loopAlive, clock, frames, tickDt, world, nextId,
                    nextTierIndex, score, best, comboCount, lastMergeTime, gameOver,
                    overTimer, paused, hasDroppedFruit, inputDrop, mergeLog, aboveRun >>
    /\ UNCHANGED << walls, hostClock, hostWindow >>
    /\ UNCHANGED pageVars
    /\ UNCHANGED pendingDrops

(* revision P, part_001 197: Engine.update moves the bodies and emits
   collisionStart before it returns *)
UpdateP ==
    /\ rev = "P" /\ pc = "loop" /\ acc >= STEP_UNITS /\ moved < MaxMovingSubsteps
    /\ \E bs1 \in Moves(bodies) : \E rep \in Reports(bs1) :
         /\ bodies' = bs1
         /\ mergeCandidates' = rep
         /\ stepLive' = Cardinality(DOMAIN bs1)
    /\ pc' = "update" /\ passNo' = 0
    /\ moved' = moved + 1
    /\ UNCHANGED << rev, loopAlive, clock, frames, acc, tickDt, world, nextId,
                    nextTierIndex, score, best, comboCount, lastMergeTime, gameOver,
                    overTimer, paused, hasDroppedFruit, inputDrop, mergedThisFrame,
                    mergeLog, aboveRun >>
    /\ UNCHANGED << walls, listeners, eventPairs, hostClock, hostWindow >>
    /\ UNCHANGED pageVars
    /\ UNCHANGED pendingDrops

(* revision P: the collisionStart listener runs, Engine.update returns,
   acc -= step *)
CollisionStartP ==
    /\ rev = "P" /\ pc = "update"
    /\ LET g == onCollisionStartP(GameRec, mergeCandidates, 1, clock)
       IN  /\ ApplyGame(g)
           /\ passNo' = IF Len(g.log) > Len(mergeLog) THEN 1 ELSE 0
    /\ mergeCandidates' = << >>
    /\ acc' = acc - STEP_UNITS
    /\ pc' = "loop"
    /\ UNCHANGED << rev, loopAlive, clock, frames, tickDt, moved, nextTierIndex,
                    gameOver, overTimer, paused, hasDroppedFruit, inputDrop, stepLive,
                    aboveRun >>
    /\ UNCHANGED << walls, listeners, eventPairs, hostClock, hostWindow >>
    /\ UNCHANGED pageVars
    /\ UNCHANGED pendingDrops

(* one iteration of the while (true) of MergeManager.process, lines 94-147 *)
ProcessPass ==
    /\ pc = "process"
    /\ LET pairs == SelectPairsC(mergeCandidates, 1, mergedThisFrame, {}, clock)
           g == ExecPairsC(GameRec, pairs, 1, passNo + 1, clock)
       IN  IF pairs = << >>
           THEN /\ pc' = "loop"
                /\ eventPairs' = << >>
                /\ UNCHANGED << bodies, world, nextId, score, best, comboCount,
                                lastMergeTime, mergedThisFrame, mergeLog, passNo >>
           ELSE /\ passNo < MaxPasses
                /\ ApplyGame(g)
                /\ passNo' = passNo + 1
                /\ pc' = "process"
                /\ UNCHANGED eventPairs
    /\ UNCHANGED << rev, loopAlive, clock, frames, acc, tickDt, moved, nextTierIndex,
                    gameOver, overTimer, paused, hasDroppedFruit, inputDrop,
                    mergeCandidates, stepLive, aboveRun >>
    /\ UNCHANGED << walls, listeners, hostClock, hostWindow >>
    /\ UNCHANGED pageVars
    /\ UNCHANGED pendingDrops

(* the iterations of while (acc >= step) left once the bodies rest and no
   contact is reported: none of them finds a candidate *)
SubstepsAtRest ==
    /\ pc = "loop" /\ acc >= STEP_UNITS /\ moved >= MaxMovingSubsteps
    /\ rev = "C" => collectCandidates(bodies, world, clock) = << >>
    /\ acc' = acc % STEP_UNITS
    /\ mergeCandidates' = IF rev = "C" THEN << >> ELSE mergeCandidates
    /\ listeners' = IF rev = "C" THEN listeners + acc \div STEP_UNITS ELSE listeners
    /\ mergedThisFrame' = {}
    /\ passNo' = 0
    /\ stepLive' = Cardinality(DOMAIN bodies)
    /\ UNCHANGED << rev, pc, loopAlive, clock, frames, tickDt, moved, bodies, world,
                    nextId, nextTierIndex, score, best, comboCount, lastMergeTime,
                    gameOver, overTimer, paused, hasDroppedFruit, inputDrop, mergeLog,
                    aboveRun >>
    /\ UNCHANGED << walls, eventPairs, hostClock, hostWindow >>
    /\ UNCHANGED pageVars
    /\ UNCHANGED pendingDrops

(* the end of the frame: revision B's merges (config.ts 852-857), then
   updateGameOver(dt) and triggerGameOver.  Revision P has no field
   hasDroppedFruit and no guard: there the variable only records that a
   fruit was dropped. *)
LoopEnd ==
    /\ pc = "loop" /\ acc < STEP_UNITS
    /\ LET g0 == GameRec
           g1 == processMergesB(g0, checkProximityForMerges(bodies, mergeCandidates, clock),
                                1, {}, clock)
           g  == IF rev = "B" THEN processChainMerges(g1, clock) ELSE GameRec
       IN  /\ ApplyGame(g)
           /\ passNo' = IF rev = "B" THEN PassesOf(g.log) ELSE passNo
           /\ stepLive' = IF rev = "B" THEN Cardinality(DOMAIN bodies) ELSE stepLive
           /\ overTimer' = IF rev = "P"
                           THEN OverTimerAfterP(g.bodies, overTimer, tickDt)
                           ELSE IF hasDroppedFruit
                           THEN OverTimerAfter(g.bodies, overTimer, tickDt)
                           ELSE overTimer
           /\ gameOver' = \/ gameOver
                          \/ rev = "P"
                               /\ TriggersGameOverP(g.bodies, overTimer, tickDt, gameOver)
                          \/ rev # "P" /\ hasDroppedFruit
                               /\ TriggersGameOver(g.bodies, overTimer, tickDt, gameOver)
           /\ aboveRun' = IF (IF rev = "P" THEN AnyOverP(g.bodies) ELSE AnyOver(g.bodies))
                          THEN aboveRun + tickDt ELSE 0
    /\ mergeCandidates' = IF rev = "B" THEN << >> ELSE mergeCandidates
    /\ pc' = "idle"
    /\ UNCHANGED << rev, loopAlive, clock, frames, acc, tickDt, moved, nextTierIndex,
                    paused, hasDroppedFruit, inputDrop >>
    /\ UNCHANGED << walls, listeners, eventPairs, hostClock, hostWindow >>
    /\ UNCHANGED pageVars
    /\ UNCHANGED pendingDrops

(* resetWorldBounds with the fruits left in place *)
resetWorldBounds_BodiesKept(g) == g

(* resetWorldBounds, lines 193-197: Composite.clear and this.bodies = [] *)
resetWorldBounds(g) == [ g EXCEPT !.bodies = NoBodies, !.world = {} ]

(* restartScore without the reset of the combo *)
restartScore_ComboKept(g) == [ g EXCEPT !.score = 0 ]

(* the scoring fields restart writes, line 319 *)
restartScore(g) == [ g EXCEPT !.score = 0, !.comboCount = 0, !.lastMergeTime = 0 ]

(* a key or pointer event sets Input.drop *)
RequestDrop ==
    /\ pc = "idle" /\ frames < MaxFrames /\ ~inputDrop
    /\ nextId + Cardinality(DOMAIN bodies) <= MaxId
    /\ inputDrop' = TRUE
    /\ UNCHANGED << rev, pc, loopAlive, clock, frames, acc, tickDt, moved, bodies,
                    world, nextId, nextTierIndex, score, best, comboCount,
                    lastMergeTime, gameOver, overTimer, paused, hasDroppedFruit,
                    mergeCandidates, mergedThisFrame, passNo, stepLive, mergeLog,
                    aboveRun >>
    /\ UNCHANGED << walls, listeners, eventPairs, hostClock, hostWindow >>
    /\ UNCHANGED pageVars
    /\ pendingDrops' = pendingDrops + 1

(* restart, lines 318-330 *)
restart ==
    /\ pc = "idle" /\ frames < MaxFrames
    /\ \E r \in RandSet : nextTierIndex' = rollNext(r)
    /\ gameOver' = FALSE /\ overTimer' = 0 /\ hasDroppedFruit' = FALSE
    /\ LET g == resetWorldBounds(restartScore(GameRec))
       IN  /\ score' = g.score /\ comboCount' = g.comboCount
           /\ lastMergeTime' = g.lastMergeTime
           /\ bodies' = g.bodies /\ world' = g.world
    /\ walls' = WALL_BODIES
    /\ mergeCandidates' = IF rev = "C" THEN mergeCandidates ELSE << >>
    /\ aboveRun' = 0
    /\ UNCHANGED << rev, pc, loopAlive, clock, frames, acc, tickDt, moved, nextId,
                    best, paused, inputDrop, mergedThisFrame, passNo, stepLive,
                    mergeLog >>
    /\ UNCHANGED << listeners, eventPairs, hostClock, hostWindow >>

Restart ==
    /\ restart
    /\ UNCHANGED pageVars
    /\ UNCHANGED pendingDrops

(* the bodies of the world: the fruits and the static bodies *)
WorldRec == [ bodies |-> bodies, world |-> world, walls |-> walls ]

(* rebuildWorldBounds with the Composite.clear of resetWorldBounds before it *)
rebuildWorldBounds_Clearing(w) ==
    [ w EXCEPT !.bodies = NoBodies, !.world = {}, !.walls = WALL_BODIES ]

(* rebuildWorldBounds, game.ts 199-211: ground, left, right and ceiling are
   added to the world; nothing is taken out of it *)
rebuildWorldBounds(w) == [ w EXCEPT !.walls = w.walls + WALL_BODIES ]

(* resizeCanvas, game.ts 335-338 and config.ts (the window's resize event) *)
Resize ==
    /\ rev # "P" /\ hostWindow = "resizable" /\ pc = "idle" /\ frames < MaxFrames
    /\ walls < WALL_BODIES * (1 + MaxResizes)
    /\ LET w == rebuildWorldBounds(WorldRec)
       IN  bodies' = w.bodies /\ world' = w.world /\ walls' = w.walls
    /\ UNCHANGED << rev, pc, loopAlive, clock, frames, acc, tickDt, moved, nextId,
                    nextTierIndex, score, best, comboCount, lastMergeTime, gameOver,
                    overTimer, paused, hasDroppedFruit, inputDrop, mergeCandidates,
                    mergedThisFrame, passNo, stepLive, mergeLog, aboveRun,
                    listeners, eventPairs, hostClock, hostWindow >>
    /\ UNCHANGED pageVars
    /\ UNCHANGED pendingDrops

(* setPaused, line 332 *)
setPaused ==
    /\ pc = "idle" /\ frames < MaxFrames
    /\ \E p \in BOOLEAN : p # paused /\ paused' = p
    /\ UNCHANGED << rev, pc, loopAlive, clock, frames, acc, tickDt, moved, bodies,
                    world, nextId, nextTierIndex, score, best, comboCount,
                    lastMergeTime, gameOver, overTimer, hasDroppedFruit, inputDrop,
                    mergeCandidates, mergedThisFrame, passNo, stepLive, mergeLog,
                    aboveRun >>
    /\ UNCHANGED << walls, listeners, eventPairs, hostClock, hostWindow >>

SetPaused ==
    /\ setPaused
    /\ UNCHANGED pageVars
    /\ UNCHANGED pendingDrops

Next ==
    \/ TickBegin
    \/ SubstepA
    \/ SubstepB
    \/ SubstepC
    \/ UpdateP
    \/ CollisionStartP
    \/ ProcessPass
    \/ SubstepsAtRest
    \/ LoopEnd
    \/ RequestDrop
    \/ Restart
    \/ Resize
    \/ SetPaused

Spec == Init /\ [][Next]_vars

----------------------------------------------------------------------------
(* Scenes: the last frame of a session that holds two fruits side by side,
   at rest or closing in, at the distances, heights and merge times the
   validation and the game-over monitor tell apart. *)

(* the largest and the next distance, in position units, around
   (rA + rB) - 0.15 * min(rA, rB) for two fruits of tier 0 *)
EdgeInside ==
    ((MERGE_EPSILON_DEN * 2 * getFruitRadius(0) - MERGE_EPSILON_NUM * getFruitRadius(0))
        * PosScale) \div MERGE_EPSILON_DEN

SceneDist == { 10 * PosScale, EdgeInside, EdgeInside + 1 }
SceneTiers == { << 0, 0 >>, << 0, 1 >>, << TIER_COUNT - 1, TIER_COUNT - 1 >> }
(* on the floor, and with the top edge of a tier-0 fruit on the line *)
SceneY == { 400 * PosScale, (gameOverLineY + getFruitRadius(0)) * PosScale }
SceneVx == { 0, 4 * PosScale }
SceneTimer == { 0, 6 * STEP_UNITS }

InitScene ==
    /\ PageRunning
    /\ pc = "idle" /\ loopAlive = TRUE /\ frames = MaxFrames - 1
    /\ acc = 0 /\ tickDt = 0 /\ moved = 0
    /\ nextTierIndex = 0
    /\ gameOver = FALSE /\ paused = FALSE /\ inputDrop = FALSE
    /\ mergeCandidates = << >> /\ mergedThisFrame = {}
    /\ passNo = 0 /\ stepLive = 0 /\ mergeLog = << >>
    /\ rev \in Revisions
    /\ clock = 9000 /\ best = 0 /\ score = 0 /\ comboCount = 0 /\ lastMergeTime = 0
    /\ hasDroppedFruit = TRUE /\ world = { 1, 2 } /\ nextId = 3
    /\ overTimer \in SceneTimer /\ aboveRun = overTimer
    /\ walls = WALL_BODIES /\ eventPairs = << >>
    /\ listeners = ListenersAt(rev, clock \div STEP_UNITS)
    /\ hostClock \in { "steady", "erratic" }
    /\ hostWindow = "resizable"
    /\ \E t \in SceneTiers, d \in SceneDist, y \in SceneY, v \in SceneVx,
          recent \in BOOLEAN :
         bodies = (1 :> NewFruit(t[1], 200 * PosScale, y, 0, 0,
                                 IF recent /\ rev # "P"
                                 THEN clock - Half(MERGE_COOLDOWN_MS * TimeScale)
                                 ELSE IF rev = "A" THEN 0 ELSE Null))
                   @@ (2 :> NewFruit(t[2], 200 * PosScale + d, y, 0 - v, 0,
                                     IF rev = "A" THEN 0 ELSE Null))

SpecScene == InitScene /\ [][Next]_vars

----------------------------------------------------------------------------
(* The merges of the frame so far, and of one step *)

Merges == { mergeLog[i] : i \in DOMAIN mergeLog }

SamePass(i, j) ==
    mergeLog[i].step = mergeLog[j].step /\ mergeLog[i].pass = mergeLog[j].pass

SourcesOf(e) == { e.a, e.b }

(* the merges a step adds to the history *)
NewMerges ==
    IF Len(mergeLog') >= Len(mergeLog)
    THEN SubSeq(mergeLog', Len(mergeLog) + 1, Len(mergeLog'))
    ELSE << >>

RECURSIVE SumGain(_, _)
SumGain(q, i) == IF i > Len(q) THEN 0 ELSE q[i].gain + SumGain(q, i + 1)

(* a step that takes no frame and no part of one: RequestDrop, Restart,
   SetPaused *)
BetweenFrames == pc = "idle" /\ pc' = "idle" /\ frames' = frames

(* the step in which updateGameOver runs *)
Evaluates == pc = "loop" /\ pc' = "idle" /\ loopAlive'

----------------------------------------------------------------------------
(* C1: within one cascade pass no fruit id is a source of more than one
   executed merge, whatever duplicate or reversed pairs the candidates hold. *)
C1_SourceOncePerPass ==
    \A i, j \in DOMAIN mergeLog :
        (i < j /\ SamePass(i, j))
            => SourcesOf(mergeLog[i]) \cap SourcesOf(mergeLog[j]) = {}

(* C1, its case: a pass of MergeManager.process has merged a pair while the
   candidates held the reversed pair and another pair sharing a fruit. *)
C1_SharedCandidateMerged ==
    /\ rev = "C" /\ pc = "process" /\ passNo >= 1 /\ mergeLog # << >>
    /\ \E i, j \in DOMAIN mergeCandidates :
         /\ mergeCandidates[i].a = mergeCandidates[j].b
         /\ mergeCandidates[i].b = mergeCandidates[j].a
    /\ \E i, j \in DOMAIN mergeCandidates :
         /\ mergeCandidates[i].a = mergeLog[1].a
         /\ mergeCandidates[j].a = mergeLog[1].a
         /\ mergeCandidates[i].b # mergeCandidates[j].b

(* C2: every executed merge removes exactly two live fruits of one tier t and
   adds exactly one fruit of tier t + 1, so the live count drops by one; the
   sources are never removed without a successor being added. *)
C2_TwoOutOneIn ==
    \A e \in Merges :
        /\ e.aLive /\ e.bLive /\ e.a # e.b
        /\ e.tier = e.tierB
        /\ e.ok
        /\ e.newTier = e.tier + 1
        /\ e.liveAfter = e.liveBefore - 1

(* C3: a fruit of the terminal tier is never a participant of an executed
   merge. *)
C3_TerminalTierNeverMerges ==
    \A e \in Merges : e.tier # TIER_COUNT - 1 /\ e.tierB # TIER_COUNT - 1

(* C4: no fruit is a source of a merge executed less than the cooldown of
   80 ms after its lastMergeAt, chain merges included. *)
C4_SourcesOffCooldown ==
    \A e \in Merges :
        /\ e.aLast # Null => e.at - e.aLast >= MERGE_COOLDOWN_MS * TimeScale
        /\ e.bLast # Null => e.at - e.bLast >= MERGE_COOLDOWN_MS * TimeScale

(* C5: the pass loop of one step ends after no more passes than there were
   live fruits at the start of the step. *)
C5_PassesWithinPopulation == passNo <= stepLive

(* C6: a fruit created by a merge of pass k is not a source of another merge
   of the same pass k. *)
C6_OneGenerationPerPass ==
    \A i, j \in DOMAIN mergeLog :
        (i < j /\ SamePass(i, j) /\ mergeLog[i].ok)
            => mergeLog[i].c \notin SourcesOf(mergeLog[j])

(* C7: each executed merge of two fruits of tier t adds exactly
   mergeBase * (t + 1) * comboCount to the score, comboCount being the value
   after the combo update of that merge, and nothing else changes the score
   but a restart, which sets it to 0. *)
C7_ScoreByMergesOnly ==
    [][ IF mergeLog' = mergeLog \/ mergeLog' = << >>
        THEN \/ score' = score
             \/ BetweenFrames /\ score' = 0 /\ bodies' = NoBodies
        ELSE LET new == NewMerges
             IN  /\ \A i \in DOMAIN new :
                      new[i].ok
                         => new[i].gain = mergeBase * (new[i].tier + 1) * new[i].combo
                 /\ score' = score + SumGain(new, 1)
      ]_vars

(* C7, its case: a merge of two fruits of tier 1 made under a combo of 2 has
   been scored. *)
C7_ComboMergeScored ==
    \E e \in Merges : e.ok /\ e.tier = 1 /\ e.combo = 2 /\ e.gain > 0 /\ score >= e.gain

(* C8: a merge at time now makes comboCount comboCount + 1 when
   now - lastMergeTime <= comboWindowMs and 1 otherwise, and lastMergeTime
   now; so the first merge after construction or restart gives 1 and a second
   merge within the window gives 2. *)
C8_ComboRule ==
    \A e \in Merges :
        e.ok =>
            /\ e.combo = IF e.at - e.last0 <= comboWindowMs * TimeScale
                         THEN e.combo0 + 1 ELSE 1
            /\ e.last = e.at
            /\ e.combo0 = 0 => e.combo = 1
            /\ (e.combo0 = 1 /\ e.at - e.last0 <= comboWindowMs * TimeScale)
                 => e.combo = 2

(* C8, its case: the first merge of a session, of two fruits of tier 0, was
   followed within the window by a merge of tier-1 sources that gained
   mergeBase * 2 * 2. *)
C8_SecondMergeInWindow ==
    \E i, j \in DOMAIN mergeLog :
        /\ i < j
        /\ mergeLog[i].combo0 = 0 /\ mergeLog[i].last0 = 0 /\ mergeLog[i].tier = 0
        /\ mergeLog[i].combo = 1
        /\ mergeLog[j].tier = 1 /\ mergeLog[j].combo = 2
        /\ mergeLog[j].gain = mergeBase * 2 * 2

(* C9: best >= score in every reachable state, and no step, restart
   included, lowers best. *)
C9_BestDominates ==
    /\ best >= score
    /\ [][ best' >= best /\ best' >= score' ]_vars

(* C9, its case: after a restart the score is 0 again and best still holds
   the score of the merge made before. *)
C9_BestKeptByRestart ==
    /\ score = 0 /\ best = mergeBase /\ bodies = NoBodies /\ ~hasDroppedFruit

(* C10: the game turns over only when some fruit has been above the line in
   consecutive evaluations of at least 1000 ms in all; an evaluation that
   finds no fruit above the line sets the timer to 0 and leaves the game
   running; an evaluation that brings the time to 1000 ms or more ends the
   game. *)
C10_GameOverDebounce ==
    [][ /\ (~gameOver /\ gameOver')
             => (Evaluates /\ aboveRun' >= DEBOUNCE_MS * TimeScale)
        /\ (Evaluates /\ ~AnyOver(bodies'))
             => (overTimer' = 0 /\ gameOver' = gameOver)
        /\ (Evaluates /\ aboveRun' >= DEBOUNCE_MS * TimeScale) => gameOver'
      ]_vars

(* C10, its case: the game is over after two evaluations in a row, neither
   of 1000 ms, that found a fruit above the line. *)
C10_OverAfterDebounce ==
    /\ gameOver /\ hasDroppedFruit
    /\ aboveRun >= DEBOUNCE_MS * TimeScale
    /\ tickDt < DEBOUNCE_MS * TimeScale

----------------------------------------------------------------------------
(* C11: the state is never Over and the over-timer never leaves 0 before a
   fruit has been dropped since construction or the last restart *)
C11_NoOverBeforeDrop == ~hasDroppedFruit => (~gameOver /\ overTimer = 0)

(* a session is restarted and a whole frame, with its evaluation, runs before
   any drop *)
C11_EvaluatedBeforeDrop ==
    /\ ~hasDroppedFruit /\ nextId > 1 /\ frames = 1 /\ stepLive = 0
    /\ pc = "idle" /\ acc < STEP_UNITS /\ tickDt > STEP_UNITS

(* C12: once the game is over, until restart no frame and no drop request
   changes the live fruits, the score, comboCount, lastMergeTime or the state,
   and no physics step or merge runs *)
C12_OverAbsorbing ==
    [][ gameOver =>
          \/ Restart
          \/ /\ gameOver'
             /\ bodies' = bodies /\ world' = world
             /\ score' = score /\ comboCount' = comboCount
             /\ lastMergeTime' = lastMergeTime
             /\ pc' = "idle" /\ NewMerges = << >> ]_vars

(* the last frame ran while the game was over and not paused: its substep
   loop was skipped and the accumulator kept what it had *)
C12_FrameWhileOver ==
    /\ gameOver /\ ~paused /\ pc = "idle"
    /\ frames = MaxFrames /\ acc >= STEP_UNITS

(* C13: restart leaves the game running with overTimer, score, comboCount and
   lastMergeTime 0, the drop guard cleared and no live fruit in the registry
   or in the world; best and paused keep their values *)
C13_RestartEffect ==
    [][ Restart =>
          /\ ~gameOver' /\ overTimer' = 0
          /\ score' = 0 /\ comboCount' = 0 /\ lastMergeTime' = 0
          /\ ~hasDroppedFruit'
          /\ bodies' = NoBodies /\ world' = {}
          /\ best' = best /\ paused' = paused ]_vars

(* a late session restarted while paused *)
C13_RestartedWhilePaused ==
    /\ paused /\ ~hasDroppedFruit /\ nextId > 1 /\ best = 7440
    /\ bodies = NoBodies /\ world = {} /\ comboCount = 0 /\ ~gameOver

(* C14: while paused no frame and no drop request changes the live fruits,
   score, best, comboCount, lastMergeTime, overTimer or the game-over state;
   setPaused changes nothing but paused *)
C14_PausedFreezes ==
    [][ /\ (paused /\ ~Restart) =>
             /\ bodies' = bodies /\ world' = world
             /\ score' = score /\ best' = best
             /\ comboCount' = comboCount /\ lastMergeTime' = lastMergeTime
             /\ overTimer' = overTimer /\ gameOver' = gameOver
             /\ pc' = "idle" /\ NewMerges = << >>
        /\ paused' # paused =>
             UNCHANGED << bodies, world, nextId, nextTierIndex, score, best,
                          comboCount, lastMergeTime, gameOver, overTimer,
                          hasDroppedFruit, inputDrop, acc, clock >> ]_vars

(* the game was paused after a merge of this session and the last frame ran
   while it was paused *)
C14_FrameWhilePaused ==
    /\ paused /\ ~gameOver /\ pc = "idle"
    /\ frames = MaxFrames /\ acc >= STEP_UNITS
    /\ comboCount >= 1 /\ score > 0 /\ score < 7440 /\ bodies # NoBodies

(* C15: in every substep the physics update completes before any merge
   executes: no merge of the frame ran inside Engine.update *)
C15_MergesAfterPhysics ==
    \A i \in DOMAIN mergeLog : mergeLog[i].where # "update"

(* C17: the successor of every executed merge is created at the midpoint of
   the positions of its two sources and with the mean of their velocities *)
C17_SuccessorAtMidpoint ==
    \A i \in DOMAIN mergeLog :
        LET e == mergeLog[i]
        IN  e.ok =>
              /\ 2 * e.made.x = e.fa.x + e.fb.x
              /\ 2 * e.made.y = e.fa.y + e.fb.y
              /\ 2 * e.made.vx = e.fa.vx + e.fb.vx
              /\ 2 * e.made.vy = e.fa.vy + e.fb.vy

(* the cooldown test of game.ts, lines 72-73 and 105-106 *)
Blocked(f, now) == Truthy(f.lastMergeAt) /\ OnCooldown(f.lastMergeAt, now)

(* C18: in game.ts a fruit created by a merge starts not merging and with
   lastMergeAt equal to the time of the merge; a fruit created by a drop
   starts with no lastMergeAt and is not blocked by the cooldown *)
C18_FreshFruitStamps ==
    [][ rev = "C" =>
          /\ \A i \in DOMAIN NewMerges :
                NewMerges[i].ok =>
                  /\ ~NewMerges[i].made.merging
                  /\ NewMerges[i].made.lastMergeAt = NewMerges[i].at
          /\ (pc = "idle" /\ frames' = frames + 1 /\ Drops) =>
                /\ nextId \in DOMAIN bodies'
                /\ bodies'[nextId].lastMergeAt = Null
                /\ ~Blocked(bodies'[nextId], clock') ]_vars

(* two dropped fruits, never merged, have merged and their successor carries
   the time of the merge *)
C18_DroppedPairMerged ==
    /\ rev = "C"
    /\ \E i \in DOMAIN mergeLog :
         /\ mergeLog[i].aLast = Null /\ mergeLog[i].bLast = Null
         /\ mergeLog[i].made.lastMergeAt = clock /\ ~mergeLog[i].made.merging

OnLadder(t) == 0 <= t /\ t < TIER_COUNT

(* C21: every live fruit has a tier of the ladder, the tier and the radius of
   a fruit never change while it lives, and createFruit is never called with
   a tier outside the ladder, neither by a drop nor by a merge *)
C21_TiersStayOnLadder ==
    [][ /\ \A i \in DOMAIN bodies' : OnLadder(bodies'[i].tier)
        /\ \A i \in DOMAIN bodies \cap DOMAIN bodies' :
              bodies'[i].tier = bodies[i].tier /\ bodies'[i].radius = bodies[i].radius
        /\ (pc = "idle" /\ frames' = frames + 1 /\ Drops) => OnLadder(nextTierIndex)
        /\ \A n \in DOMAIN NewMerges : OnLadder(NewMerges[n].tier + 1) ]_vars

MergedAway == UNION { SourcesOf(NewMerges[n]) : n \in DOMAIN NewMerges }

DropsNow == pc = "idle" /\ frames' = frames + 1 /\ Drops

(* C22: between two restarts a fruit leaves the live set only as a source of
   a merge the step executes: a tick, a drop, a pause, a resize or the game
   ending removes none, and the live count changes by +1 for a drop and by
   -1 for each merge (game.ts, part_001 and the later Game of config.ts) *)
C22_OnlyMergesRemove ==
    [][ (rev # "A" /\ ~Restart) =>
          /\ DOMAIN bodies \ DOMAIN bodies' \subseteq MergedAway
          /\ Cardinality(DOMAIN bodies') =
                Cardinality(DOMAIN bodies) + (IF DropsNow THEN 1 ELSE 0) - Len(NewMerges)
          /\ (Resize \/ SetPaused \/ NewMerges = << >>) => DOMAIN bodies \subseteq DOMAIN bodies' ]_vars

(* C22 witness: the canvas was resized with fruits in the world, a frame ran
   after it and the fruits are still live *)
C22_ResizedWithFruits ==
    /\ rev = "C" /\ walls > WALL_BODIES /\ pc = "idle" /\ frames = MaxFrames
    /\ Cardinality(DOMAIN bodies) >= 3

LastTier(f) == f.tier = TIER_COUNT - 1

(* the pass about to run selects pairs, and only pairs of the last tier *)
TerminalSelected ==
    LET pairs == SelectPairsC(mergeCandidates, 1, mergedThisFrame, {}, clock)
    IN  pairs # << >> /\ \A i \in DOMAIN pairs : LastTier(pairs[i].fa)

(* C23: a candidate pair of the last tier is dropped in silence: no
   exception ends the loop, no merge of the last tier is executed, and the
   pass that meets the pair changes neither the fruits nor score and combo
   and ends the merge processing of the step *)
C23_TerminalPairDropped ==
    [][ /\ loopAlive => loopAlive'
        /\ \A n \in DOMAIN NewMerges : ~LastTier(NewMerges[n].fa)
        /\ (pc = "process" /\ TerminalSelected) =>
              /\ pc' = "loop"
              /\ bodies' = bodies /\ score' = score
              /\ comboCount' = comboCount /\ lastMergeTime' = lastMergeTime ]_vars

(* a candidate of game.ts that names a fruit no longer live *)
Dead(p) == p.a \notin DOMAIN bodies \/ p.b \notin DOMAIN bodies

(* C24: a candidate that refers to a fruit no longer live is skipped: both
   sources of every executed merge are live when it executes, and a pass of
   MergeManager.process that finds only such candidates removes nothing,
   creates nothing, scores nothing and ends the processing *)
C24_DeadCandidateSkipped ==
    [][ /\ \A n \in DOMAIN NewMerges : NewMerges[n].aLive /\ NewMerges[n].bLive
        /\ ( /\ pc = "process" /\ mergeCandidates # << >>
             /\ \A i \in DOMAIN mergeCandidates : Dead(mergeCandidates[i]) ) =>
              /\ pc' = "loop" /\ mergeLog' = mergeLog
              /\ bodies' = bodies /\ nextId' = nextId /\ score' = score ]_vars

(* C24 witness: a step of game.ts executed a merge, the next pass met the
   candidates that still name the two removed fruits, and the processing ended *)
C24_DeadCandidateMet ==
    /\ rev = "C" /\ pc = "loop" /\ passNo = 1 /\ Len(mergeLog) >= 1
    /\ \E i \in DOMAIN mergeCandidates : Dead(mergeCandidates[i])

(* C26: no live fruit is marked as merging: the two fruits performMerge and
   tryMerge mark are removed by the same execution, the sources of every
   executed merge were unmarked before it and are gone after it, and no
   other fruit is ever marked *)
C26_NoLiveFruitMerging ==
    /\ \A i \in DOMAIN bodies : ~bodies[i].merging
    /\ \A e \in Merges :
          /\ ~e.fa.merging /\ ~e.fb.merging
          /\ e.a \notin DOMAIN bodies /\ e.b \notin DOMAIN bodies

(* C26 witness: performMerge or tryMerge has merged two fruits while a third
   fruit of their tier was live, and the frame has ended *)
C26_MergedBesideThird ==
    /\ (rev = "B" \/ rev = "P") /\ pc = "idle"
    /\ \E e \in Merges : \E i \in DOMAIN bodies :
          e.ok /\ bodies[i].tier = e.tier /\ i < e.c

----------------------------------------------------------------------------
(* Claims about one step of merge processing, checked on the scenes *)

(* the last frame of the behaviour ran its substep loop to the end *)
StepRan ==
    /\ pc = "idle" /\ frames = MaxFrames /\ acc < STEP_UNITS /\ loopAlive
    /\ tickDt >= STEP_UNITS

(* two fruits of tier 0 at center distance 10, no relative velocity, never
   merged *)
SmallPair(a, b) ==
    /\ a.tier = 0 /\ b.tier = 0
    /\ Dist2(a, b) = (10 * PosScale) * (10 * PosScale) /\ RelV2(a, b) = 0
    /\ ~Truthy(a.lastMergeAt) /\ ~Truthy(b.lastMergeAt)

(* C16: with exactly two live fruits of tier 0 (radius 16) at center distance
   10, no relative velocity, no merge before and score 0, one step of merge
   processing leaves exactly one live fruit, of tier 1, at the midpoint of the
   two, and score = 10 *)
C16_SmallPairMerges ==
    rev \in { "B", "C" } =>
      /\ ~ /\ StepRan /\ score = 0 /\ comboCount = 0
           /\ \E i, j \in DOMAIN bodies :
                i < j /\ DOMAIN bodies = { i, j } /\ SmallPair(bodies[i], bodies[j])
      /\ ( /\ StepRan /\ mergeLog # << >>
           /\ SmallPair(mergeLog[1].fa, mergeLog[1].fb)
           /\ mergeLog[1].liveBefore = 2
           /\ mergeLog[1].score0 = 0 /\ mergeLog[1].combo0 = 0 )
          => /\ Cardinality(DOMAIN bodies) = 1
             /\ \A c \in DOMAIN bodies :
                  /\ bodies[c].tier = 1
                  /\ 2 * bodies[c].x = mergeLog[1].fa.x + mergeLog[1].fb.x
                  /\ 2 * bodies[c].y = mergeLog[1].fa.y + mergeLog[1].fb.y
             /\ score = mergeBase

(* d <= rA + rB - 0.15 * min(rA, rB) in whole numbers: both sides times 20
   and squared, once d <= rA + rB is known *)
WithinThreshold(a, b) ==
    LET reach == PosScale * (a.radius + b.radius)
        need  == 20 * reach - 3 * PosScale * Min(a.radius, b.radius)
    IN  Dist2(a, b) <= reach * reach /\ 400 * Dist2(a, b) <= need * need

(* the pair is accepted as a candidate: by isValidMergePair in game.ts, by
   addMergeCandidate in config.ts 154-173 *)
Eligible(i, j) ==
    IF rev = "C" THEN isValidMergePair(bodies[i], bodies[j], clock)
    ELSE \E n \in DOMAIN addMergeCandidate(bodies, << >>, i, j) :
            addMergeCandidate(bodies, << >>, i, j)[n] = key(i, j)

(* C19: no merge is executed between fruits of different tiers nor between
   fruits further apart than rA + rB - 0.15 * min(rA, rB); a pair of the same
   tier below the last, off cooldown, within that distance and within the
   largest relative speed is accepted as eligible *)
C19_EligibilityRule ==
    (rev = "A" \/ rev = "C") =>
      /\ \A n \in DOMAIN mergeLog :
            /\ mergeLog[n].tier = mergeLog[n].tierB
            /\ WithinThreshold(mergeLog[n].fa, mergeLog[n].fb)
      /\ \A i, j \in DOMAIN bodies :
            ( /\ i < j
              /\ bodies[i].tier = bodies[j].tier /\ bodies[i].tier < TIER_COUNT - 1
              /\ ~bodies[i].merging /\ ~bodies[j].merging
              /\ ~Blocked(bodies[i], clock) /\ ~Blocked(bodies[j], clock)
              /\ WithinThreshold(bodies[i], bodies[j])
              /\ RelVLE(bodies[i], bodies[j], MERGE_MAX_REL_V) )
            => Eligible(i, j)

(* two fruits at the largest distance that still passes have merged *)
C19_MergedAtTheEdge ==
    /\ rev = "C"
    /\ \E n \in DOMAIN mergeLog :
         Dist2(mergeLog[n].fa, mergeLog[n].fb) = EdgeInside * EdgeInside

(* some live fruit has its top edge numerically below the line's y *)
StrictlyAbove(bs) ==
    \E i \in DOMAIN bs : bs[i].y - bs[i].radius * PosScale < gameOverLineY * PosScale

(* C20: in game.ts and in the prototype, an evaluation in which no top edge
   is strictly less than the line, a top edge exactly on the line included,
   resets the over-timer to 0; the timer grows only when some top edge is
   strictly less than the line *)
C20_StrictComparison ==
    [][ (Evaluates /\ (rev = "C" \/ rev = "P")) =>
          /\ ~StrictlyAbove(bodies') => overTimer' = 0
          /\ overTimer' > overTimer => StrictlyAbove(bodies') ]_vars

(* C25: the over-timer is never negative and never decreases but by a reset
   to 0, and a frame whose elapsed time is zero or negative leaves it as it
   is or resets it (game.ts) *)
C25_OverTimerMonotone ==
    [][ (rev = "C") =>
          /\ overTimer' >= 0
          /\ overTimer' >= overTimer \/ overTimer' = 0
          /\ (pc = "loop" /\ pc' = "idle" /\ tickDt <= 0) =>
                (overTimer' = overTimer \/ overTimer' = 0) ]_vars

----------------------------------------------------------------------------
(* Claims about the candidate collection and the contact listeners *)

(* C27: in game.ts every candidate a contact listener inserted for a pair of
   live, eligible fruits during the update of a step is in the collection
   the merge processing of that step reads *)
C27_EventPairsProcessed ==
    (rev = "C" /\ pc = "process" /\ passNo = 0) =>
        \A i \in DOMAIN eventPairs :
            \E j \in DOMAIN mergeCandidates : mergeCandidates[j] = eventPairs[i]

(* C28: the number of contact listeners that insert merge candidates is the
   same after every step, so that one reported contact is inserted as often
   in a later step as in the first *)
C28_ListenersConstant == [][ listeners' = listeners ]_vars

(* C29: a merge candidate is used only in the step that produced it: the
   collection is empty when a physics step starts and after a restart *)
C29_CandidatesOfOneStep ==
    [][ /\ (pc = "loop" /\ acc >= STEP_UNITS) => mergeCandidates = << >>
        /\ Restart => mergeCandidates' = << >> ]_vars

(* the fruits the passes of the running step of game.ts have created *)
MadeThisStep ==
    { e.c : e \in { m \in Merges : m.step = acc /\ m.where = "process" /\ m.ok } }
        \cap DOMAIN bodies

(* C30: in game.ts each pass of a step gathers its candidates afresh: after
   a pass, a fruit the step has created and a live fruit of its tier that it
   overlaps are a candidate pair of the next pass *)
C30_CascadeRegathers ==
    (rev = "C" /\ pc = "process" /\ passNo >= 1) =>
        \A c \in MadeThisStep : \A o \in DOMAIN bodies \ { c } :
            (bodies[o].tier = bodies[c].tier /\ OverlapOK(bodies[c], bodies[o])) =>
                \E j \in DOMAIN mergeCandidates :
                    { mergeCandidates[j].a, mergeCandidates[j].b } = { c, o }

-----------------------------------------------------------------------------
(* Claims about pair keys, drops and the bookkeeping of bodies *)

(* the two ids a candidate stands for: a key of revisions A and B is split
   into its two numbers, a candidate of game.ts carries the two bodies *)
PairOf(c) == IF rev = "C" THEN { c.a, c.b } ELSE { c[1], c[2] }

(* C31: the candidate collection holds every unordered pair of fruits at
   most once, whichever member it was found from and whichever path
   reported it *)
C31_PairHeldOnce ==
    (rev = "A" \/ rev = "B" \/ rev = "C") =>
        \A i, j \in DOMAIN mergeCandidates :
            PairOf(mergeCandidates[i]) = PairOf(mergeCandidates[j]) => i = j

(* Math.random() * sum in 60ths: the weights 1, 1/2 .. 1/5 sum to 137/60;
   the values from 137 on stand for a rounding residue that leaves r above
   zero after the last weight *)
RandRange == 0 .. 139

StartTier(t) == 0 <= t /\ t <= maxStartTier /\ t # TIER_COUNT - 1

(* C32: a dropped fruit has a tier of 0..min(4, TIER_COUNT - 2), never the
   last one, whatever the random source returns; a drop request met while
   the game is paused or over creates nothing *)
C32_DropsFromStartLadder ==
    [][ /\ StartTier(nextTierIndex')
        /\ DropsNow =>
               /\ \A r \in RandRange : StartTier(rollNext(r))
               /\ DOMAIN bodies' = DOMAIN bodies \cup { nextId }
               /\ StartTier(bodies'[nextId].tier)
        /\ (pc = "idle" /\ frames' = frames + 1 /\ inputDrop /\ (paused \/ gameOver)) =>
               (bodies' = bodies /\ world' = world /\ nextId' = nextId) ]_vars

C32_DroppedSecondTier ==
    /\ pc = "loop" /\ hasDroppedFruit
    /\ \E i \in DOMAIN bodies :
           /\ i = nextId - 1 /\ bodies[i].tier = 1
           /\ bodies[i].y = spawnY * PosScale

(* a frame that passes while the game is paused *)
PausedFrame == pc = "idle" /\ frames' = frames + 1 /\ paused

(* C34: time that elapses while the game is paused is never simulated: a
   frame that passes while paused leaves the accumulator as it was, so the
   number of substeps of the first frame after resuming is that of its own
   dt, whatever the length of the pause *)
C34_PauseNotBanked == [][ PausedFrame => acc' = acc ]_vars

(* C39: the fruits of Game.bodies and the fruit bodies of the physics world
   are the same set after every drop, merge, restart and resize *)
C39_RegistryIsWorld == world = DOMAIN bodies

C39_MergedAfterResize ==
    /\ rev = "C" /\ walls > WALL_BODIES
    /\ \E m \in Merges : m.ok /\ m.c \in DOMAIN bodies /\ m.a \notin world

-----------------------------------------------------------------------------
(* The page of main.ts: boot, the handlers of input.ts and of main.ts, the
   buttons.  Every handler runs to its end before the next event or frame is
   taken, so a handler is one step between two frames.  performance.now()
   read by a handler is the time of the last frame. *)

DROP_COOLDOWN_MS == 150

(* Math.random() * sum met by the calls of rollNext the handlers make *)
PageRandSet == { 61 }
MaxLoops == 2       \* calls of Game.start made by the restart buttons
MaxDropped == 3     \* ids that the gestures of one page may use up
MaxPending == 2     \* requests that find Input.drop set already, plus one
MaxEvents == 3      \* gestures and clicks of one page

PageRec == [ games |-> games, started |-> started, starting |-> starting,
             resumeArmed |-> resumeArmed ]

(* startGame without the test of game *)
startGame_Unguarded(p) ==
    [ p EXCEPT !.games = p.games + 1, !.starting = p.starting + 1 ]

(* startGame, main.ts 14-63: up to await game.start(), which waits inside
   init for the images *)
startGame(p) ==
    IF p.games > 0 THEN p
    ELSE [ p EXCEPT !.games = p.games + 1, !.starting = p.starting + 1 ]

(* boot, main.ts 67-74 *)
boot(p) == IF p.started THEN p ELSE startGame(p)

(* resume of unlockAudioOnce, main.ts 77-83 *)
resume(p) ==
    IF p.resumeArmed
    THEN [ (IF ~p.started THEN boot(p) ELSE p) EXCEPT !.resumeArmed = FALSE ]
    ELSE p

ApplyPage(p) ==
    /\ games' = p.games /\ started' = p.started /\ starting' = p.starting
    /\ resumeArmed' = p.resumeArmed

(* what the calls of dropFruit made by one handler read and write *)
DropRec == [ g |-> GameRec, tier |-> nextTierIndex, dropped |-> hasDroppedFruit,
             made |-> 0 ]

(* Game.dropFruit, game.ts 267-277; r is the random number of rollNext *)
callDropFruit(d, x, r) ==
    IF gameOver \/ paused THEN d
    ELSE [ g |-> createFruit(d.g, d.tier, x, spawnY * PosScale, 0, 0, InitialLast),
           tier |-> rollNext(r), dropped |-> TRUE, made |-> d.made + 1 ]

(* the listener of DROP_REQUESTED and the listener of Space, main.ts 47-51
   and 54-61; m is what game.getMuted() returns *)
dropUnlessMuted(m, d, x, r) ==
    IF games > 0 /\ ~m THEN callDropFruit(d, x, r) ELSE d

(* tryDrop without the cooldown *)
tryDrop_Always(m, d, last, now, x, r) ==
    [ d |-> dropUnlessMuted(m, d, x, r), lastDropAt |-> now,
      try |-> [ at |-> now, last0 |-> last, ok |-> TRUE ] ]

(* tryDrop, input.ts 27-32; onDrop dispatches DROP_REQUESTED, whose listener
   runs before dispatchEvent returns *)
tryDrop(m, d, last, now, x, r) ==
    IF now - last < DROP_COOLDOWN_MS * TimeScale
    THEN [ d |-> d, lastDropAt |-> last,
           try |-> [ at |-> now, last0 |-> last, ok |-> FALSE ] ]
    ELSE [ d |-> dropUnlessMuted(m, d, x, r), lastDropAt |-> now,
           try |-> [ at |-> now, last0 |-> last, ok |-> TRUE ] ]

ApplyDrop(d) ==
    /\ bodies' = d.g.bodies /\ world' = d.g.world /\ nextId' = d.g.nextId
    /\ nextTierIndex' = d.tier /\ hasDroppedFruit' = d.dropped

ApplyTry(t) ==
    /\ ApplyDrop(t.d) /\ lastDropAt' = t.lastDropAt /\ lastTry' = t.try

(* an event is taken between two frames, by a page that has its handlers *)
HandlersReady(room) ==
    /\ pc = "idle" /\ frames < MaxFrames /\ games > 0
    /\ nextId + room <= MaxDropped + 1
    /\ pendingDrops < MaxPending
    /\ events < MaxEvents /\ events' = events + 1

(* what the keyboard fallback of attachInputHandlers and then the listener
   of main.ts do on one keydown of Space *)
onKeySpace(m, x, r1, r2) ==
    LET t == tryDrop(m, DropRec, lastDropAt, clock, x, r1)
    IN  [ t EXCEPT !.d = dropUnlessMuted(m, t.d, x, r2) ]

(* one press of Space: keydown reaches the listeners of window in the order
   of their registration: Input.onKey (input.ts 81), the keyboard fallback of
   attachInputHandlers (54-59), the listener of main.ts (54-61), resume *)
KeySpace ==
    /\ HandlersReady(3)
    /\ \E x \in DropXSet, r1 \in PageRandSet, r2 \in PageRandSet :
         ApplyTry(onKeySpace(muted, x, r1, r2))
    /\ inputDrop' = TRUE /\ pendingDrops' = pendingDrops + 1
    /\ ApplyPage(resume(PageRec))
    /\ UNCHANGED << rev, pc, loopAlive, clock, frames, acc, tickDt, moved, score,
                    best, comboCount, lastMergeTime, gameOver, overTimer, paused,
                    mergeCandidates, mergedThisFrame, passNo, stepLive, mergeLog,
                    aboveRun, walls, listeners, eventPairs, hostClock, hostWindow >>
    /\ UNCHANGED << initing, loops, soundListeners, muted, touchX, press >>

(* a pointer goes down on the canvas: onPointerDown (input.ts 34-39) cancels
   the event and stops it, so that resume does not see it and a mouse sends
   no mousedown; a finger sends touchstart, which reaches press of Input
   (89-96) and resume *)
CanvasPress ==
    /\ HandlersReady(2) /\ press = "none"
    /\ \E k \in { "mouse", "touch" } :
         /\ press' = k
         /\ touchX' = (touchX \/ k = "touch")
         /\ ApplyPage(IF k = "touch" THEN resume(PageRec) ELSE PageRec)
    /\ UNCHANGED << rev, pc, loopAlive, clock, frames, acc, tickDt, moved, bodies,
                    world, nextId, nextTierIndex, score, best, comboCount,
                    lastMergeTime, gameOver, overTimer, paused, hasDroppedFruit,
                    inputDrop, mergeCandidates, mergedThisFrame, passNo, stepLive,
                    mergeLog, aboveRun, walls, listeners, eventPairs, hostClock,
                    hostWindow >>
    /\ UNCHANGED << initing, loops, soundListeners, muted, lastDropAt, lastTry,
                    pendingDrops >>

(* a pointer goes down outside the canvas, on a button for instance: only
   resume listens *)
PressElsewhere ==
    /\ HandlersReady(1) /\ press = "none"
    /\ press' = "elsewhere"
    /\ ApplyPage(resume(PageRec))
    /\ UNCHANGED << rev, pc, loopAlive, clock, frames, acc, tickDt, moved, bodies,
                    world, nextId, nextTierIndex, score, best, comboCount,
                    lastMergeTime, gameOver, overTimer, paused, hasDroppedFruit,
                    inputDrop, mergeCandidates, mergedThisFrame, passNo, stepLive,
                    mergeLog, aboveRun, walls, listeners, eventPairs, hostClock,
                    hostWindow >>
    /\ UNCHANGED << initing, loops, soundListeners, muted, lastDropAt, touchX,
                    lastTry, pendingDrops >>

(* the pointer goes up: onPointerUp on window (input.ts 41-46, 51), then up
   of Input (104-109) through touchend on the canvas after a touch that began
   there, or through mouseup on window after a mouse press that was not
   cancelled *)
Release ==
    /\ HandlersReady(1) /\ press # "none"
    /\ \E x \in DropXSet, r \in PageRandSet :
         ApplyTry(tryDrop(muted, DropRec, lastDropAt, clock, x, r))
    /\ LET upRuns == press = "touch" \/ press = "elsewhere"
           sets   == upRuns /\ touchX
       IN  /\ inputDrop' = (inputDrop \/ sets)
           /\ pendingDrops' = IF sets THEN pendingDrops + 1 ELSE pendingDrops
           /\ touchX' = IF upRuns THEN FALSE ELSE touchX
    /\ press' = "none"
    /\ UNCHANGED << rev, pc, loopAlive, clock, frames, acc, tickDt, moved, score,
                    best, comboCount, lastMergeTime, gameOver, overTimer, paused,
                    mergeCandidates, mergedThisFrame, passNo, stepLive, mergeLog,
                    aboveRun, walls, listeners, eventPairs, hostClock, hostWindow >>
    /\ UNCHANGED << games, started, resumeArmed, starting, initing, loops,
                    soundListeners, muted >>

(* the sound button, main.ts 42-44: Game.setMuted *)
ClickSound ==
    /\ pc = "idle" /\ frames < MaxFrames /\ games > 0
    /\ events < MaxEvents /\ events' = events + 1
    /\ muted' = ~muted
    /\ UNCHANGED << rev, pc, loopAlive, clock, frames, acc, tickDt, moved, bodies,
                    world, nextId, nextTierIndex, score, best, comboCount,
                    lastMergeTime, gameOver, overTimer, paused, hasDroppedFruit,
                    inputDrop, mergeCandidates, mergedThisFrame, passNo, stepLive,
                    mergeLog, aboveRun, walls, listeners, eventPairs, hostClock,
                    hostWindow >>
    /\ UNCHANGED << games, started, resumeArmed, starting, initing, loops,
                    soundListeners, lastDropAt, touchX, press, lastTry,
                    pendingDrops >>

(* a click that is counted and leaves the page and the handlers alone *)
Click ==
    /\ games > 0
    /\ events < MaxEvents /\ events' = events + 1
    /\ UNCHANGED << games, started, resumeArmed, starting, initing, loops,
                    soundListeners, muted, lastDropAt, touchX, press, lastTry,
                    pendingDrops >>

(* the pause button and the restart buttons of main.ts, lines 31-36 *)
ClickPause == Click /\ setPaused

ClickRestart == Click /\ restart

(* DOMContentLoaded, main.ts 100-103: boot, then unlockAudioOnce *)
DomReady ==
    /\ pc = "idle" /\ games = 0 /\ ~resumeArmed
    /\ ApplyPage([ boot(PageRec) EXCEPT !.resumeArmed = TRUE ])
    /\ UNCHANGED << rev, pc, loopAlive, clock, frames, acc, tickDt, moved, bodies,
                    world, nextId, nextTierIndex, score, best, comboCount,
                    lastMergeTime, gameOver, overTimer, paused, hasDroppedFruit,
                    inputDrop, mergeCandidates, mergedThisFrame, passNo, stepLive,
                    mergeLog, aboveRun, walls, listeners, eventPairs, hostClock,
                    hostWindow >>
    /\ UNCHANGED << initing, loops, soundListeners, muted, lastDropAt, touchX,
                    press, lastTry, pendingDrops, events >>

(* the images are loaded: init goes on (game.ts 186-189: resetWorldBounds,
   wireEvents, rollNext) and start after it (341-410): a tick loop of its
   own, with its own acc and last *)
StartGoesOn ==
    /\ pc = "idle" /\ starting > 0
    /\ starting' = starting - 1
    /\ LET g == resetWorldBounds(GameRec)
       IN  bodies' = g.bodies /\ world' = g.world
    /\ walls' = WALL_BODIES
    /\ soundListeners' = soundListeners + 1
    /\ \E r \in PageRandSet : nextTierIndex' = rollNext(r)
    /\ loops' = loops + 1 /\ loopAlive' = TRUE
    /\ UNCHANGED << rev, pc, clock, frames, acc, tickDt, moved, nextId, score,
                    best, comboCount, lastMergeTime, gameOver, overTimer, paused,
                    hasDroppedFruit, inputDrop, mergeCandidates, mergedThisFrame,
                    passNo, stepLive, mergeLog, aboveRun, listeners, eventPairs,
                    hostClock, hostWindow >>
    /\ UNCHANGED << games, resumeArmed, initing, muted, lastDropAt, touchX, press,
                    lastTry, pendingDrops, events >>

(* main.ts 63-64: await game.start(); started = true *)
StartResolved == StartGoesOn /\ started' = TRUE

(* the page as the browser has loaded it: main.ts has run, DOMContentLoaded
   is still to come; the fields of Game have the values of their
   declarations *)
PageLoaded ==
    /\ pc = "idle" /\ loopAlive = FALSE /\ frames = 0
    /\ acc = 0 /\ tickDt = 0 /\ moved = 0
    /\ nextTierIndex = 0
    /\ gameOver = FALSE /\ overTimer = 0 /\ paused = FALSE
    /\ inputDrop = FALSE
    /\ mergeCandidates = << >> /\ mergedThisFrame = {}
    /\ passNo = 0 /\ stepLive = 0 /\ mergeLog = << >> /\ aboveRun = 0
    /\ walls = 0 /\ eventPairs = << >> /\ hostClock = "steady"
    /\ clock = StartClock /\ bodies = NoBodies /\ world = {} /\ nextId = 1
    /\ score = 0 /\ comboCount = 0 /\ lastMergeTime = 0
    /\ hasDroppedFruit = FALSE
    /\ listeners = 0 /\ hostWindow = "fixed"
    /\ best = 0
    /\ starting = 0 /\ initing = 0 /\ loops = 0 /\ soundListeners = 0
    /\ lastDropAt = 0 /\ touchX = FALSE /\ press = "none"
    /\ lastTry = NoTry /\ pendingDrops = 0 /\ events = 0

InitPage ==
    /\ PageLoaded
    /\ rev = "C"
    /\ games = 0 /\ started = FALSE /\ resumeArmed = FALSE
    /\ muted \in BOOLEAN

NextPage ==
    \/ DomReady
    \/ StartResolved
    \/ KeySpace
    \/ CanvasPress
    \/ PressElsewhere
    \/ Release
    \/ ClickSound
    \/ ClickPause
    \/ ClickRestart
    \/ TickBegin
    \/ SubstepC
    \/ ProcessPass
    \/ SubstepsAtRest
    \/ LoopEnd

SpecPage == InitPage /\ [][NextPage]_vars

-----------------------------------------------------------------------------
(* The page of the script that ends input.ts (lines 136-187): the Game is
   constructed when the script is evaluated; DOMContentLoaded and the two
   restart buttons call initGame.  The frames of the loops it starts are
   those of Spec and are not followed here. *)

(* initGame, input.ts 170-182, up to the wait of init for the images:
   resizeCanvas, then game.init() *)
initGame ==
    /\ pc = "idle" /\ games > 0
    /\ loops + starting + initing < MaxLoops
    /\ LET w == rebuildWorldBounds(WorldRec)
       IN  bodies' = w.bodies /\ world' = w.world /\ walls' = w.walls
    /\ initing' = initing + 1
    /\ UNCHANGED << rev, pc, loopAlive, clock, frames, acc, tickDt, moved, nextId,
                    nextTierIndex, score, best, comboCount, lastMergeTime, gameOver,
                    overTimer, paused, hasDroppedFruit, inputDrop, mergeCandidates,
                    mergedThisFrame, passNo, stepLive, mergeLog, aboveRun,
                    listeners, eventPairs, hostClock, hostWindow >>
    /\ UNCHANGED << games, started, resumeArmed, starting, loops, soundListeners,
                    muted, lastDropAt, touchX, press, lastTry, events,
                    pendingDrops >>

(* the images are loaded: init goes on (game.ts 186-189: resetWorldBounds,
   wireEvents, rollNext), then the callback of initGame runs restart, which
   resets and rolls again, and start, which waits inside init *)
InitGoesOn ==
    /\ initing > 0
    /\ restart
    /\ initing' = initing - 1 /\ starting' = starting + 1
    /\ soundListeners' = soundListeners + 1
    /\ UNCHANGED << games, started, resumeArmed, loops, muted, lastDropAt, touchX,
                    press, lastTry, events, pendingDrops >>

(* start goes on; the script has no variable started *)
LegacyStartResolved == StartGoesOn /\ UNCHANGED started

InitLegacy ==
    /\ PageLoaded
    /\ rev = "C"
    /\ games = 1 /\ started = FALSE /\ resumeArmed = FALSE
    /\ muted \in BOOLEAN

NextLegacy ==
    \/ initGame
    \/ InitGoesOn
    \/ LegacyStartResolved
    \/ ClickPause
    \/ ClickSound

SpecLegacy == InitLegacy /\ [][NextLegacy]_vars

-----------------------------------------------------------------------------
(* Claims about the page and the input handlers *)

(* C35: the page constructs at most one Game and starts at most one tick
   loop, also when the first gesture calls boot while the start begun at
   DOMContentLoaded is still waiting for the images *)
C35_OneGameOneLoop == games <= 1 /\ loops + starting <= 1

C35_BootedWhileStarting ==
    /\ games = 1 /\ starting = 1 /\ ~started /\ loops = 0
    /\ ~resumeArmed /\ events > 0

(* a press of Space, or the release of a pointer that went down on the
   canvas *)
DropGesture == KeySpace \/ (Release /\ (press = "mouse" \/ press = "touch"))

(* C36: one drop gesture makes at most one fruit: the handlers it reaches
   create at most one between them, and if they created one they leave no
   request of their own in Input.drop for the next frame to serve *)
C36_OneFruitPerGesture ==
    [][ DropGesture =>
          LET made  == Cardinality(DOMAIN bodies' \ DOMAIN bodies)
              asked == IF inputDrop' /\ ~inputDrop THEN 1 ELSE 0
          IN  made + asked <= 1 ]_vars

(* C37: the release of a pointer that did not go down on the canvas creates
   no fruit and leaves no request in Input.drop *)
C37_ReleaseElsewhereIdle ==
    [][ (Release /\ press = "elsewhere") =>
           /\ bodies' = bodies /\ nextId' = nextId
           /\ inputDrop' = inputDrop ]_vars

(* C38: the sound setting has no influence on the game: whatever a press of
   Space or the release of a pointer does to the fruits, to the next tier
   and to the cooldown, it would have done the same had the setting been
   the other one *)
C38_MuteNoInfluence ==
    [][ \A x \in DropXSet, r1 \in PageRandSet, r2 \in PageRandSet :
          /\ KeySpace =>
                LET other == onKeySpace(~muted, x, r1, r2)
                IN  /\ bodies' = other.d.g.bodies
                    /\ nextTierIndex' = other.d.tier
                    /\ lastDropAt' = other.lastDropAt
          /\ Release =>
                LET other == tryDrop(~muted, DropRec, lastDropAt, clock, x, r1)
                IN  /\ bodies' = other.d.g.bodies
                    /\ nextTierIndex' = other.d.tier
                    /\ lastDropAt' = other.lastDropAt ]_vars

CooldownUnits == DROP_COOLDOWN_MS * TimeScale

(* C40: tryDrop accepts a request only DROP_COOLDOWN_MS or more after the
   last one it accepted, and only then writes lastDropAt and lets a fruit be
   made; Input.drop is a flag: the frame that reads it creates at most one
   fruit for all the requests made since the frame before, and clears it *)
C40_CooldownAndFlag ==
    [][ /\ lastTry' # lastTry =>
              /\ lastTry'.ok = (lastTry'.at - lastTry'.last0 >= CooldownUnits)
              /\ lastTry'.at = clock /\ lastTry'.last0 = lastDropAt
              /\ lastDropAt' = IF lastTry'.ok THEN clock ELSE lastDropAt
        /\ lastDropAt' # lastDropAt =>
              (lastTry'.ok /\ lastDropAt' - lastDropAt >= CooldownUnits)
        /\ (Release /\ bodies' # bodies) => (lastTry' # lastTry /\ lastTry'.ok)
        /\ (pc = "idle" /\ frames' = frames + 1) =>
              /\ ~inputDrop'
              /\ Cardinality(DOMAIN bodies' \ DOMAIN bodies)
                     <= (IF inputDrop THEN 1 ELSE 0) ]_vars

C40_IgnoredAndAskedTwice ==
    /\ ~lastTry.ok /\ lastTry.last0 > 0 /\ lastDropAt = lastTry.last0
    /\ lastTry.at - lastTry.last0 < CooldownUnits
    /\ pendingDrops = 2 /\ inputDrop

(* C33: a Game runs at most one tick loop and holds at most one set of
   collision listeners, however often the restart buttons are pressed *)
C33_OneLoopOneListenerSet == loops <= 1 /\ soundListeners <= 1

====
